---- MODULE Spec2Model ----
(***************************************************************************)
(* photosort: the import pipeline of Library::import (import.rs), the      *)
(* index schema of Database::new (database.rs) and the reconciliation      *)
(* pass of scan_library / handle_scan_results (scan.rs).                   *)
(*                                                                         *)
(* A source tree is a sequence of directories, one media file each (with   *)
(* an optional same-stem sidecar), listed in the order WalkDir yields      *)
(* them.  The library is its index (media and sidecars rows) and the files *)
(* below its root.  One import run is split at the points where the        *)
(* process can be interrupted: the dedup loop (one candidate per step),    *)
(* the planning of the copies, the parallel copies (one copy per step, in  *)
(* any order), the join, the INSERT loop of the transaction, the commit.   *)
(***************************************************************************)
EXTENDS Integers, Sequences, FiniteSets, TLC

\* ------------------------------------------------------------------ bounds
MaxCand == 3
MaxContent == 2
MaxSidecar == 1
MaxDay == 1
MaxFaults == 1
MaxScanCand == 2
MaxEdits == 1
MaxSizeN == 10
MaxRows == 2
MaxHour == 3
MaxOffset == 2
MaxBackups == 2
MaxCopied == 1
MaxTime == 1
MaxIndexRows == 3

\* ------------------------------------------------------------- vocabulary
NoFile == 0

Stems == {"a", "b"}

\* a filename is its stem and its extension
MediaNames == {[stem |-> "a", ext |-> "jpg"], [stem |-> "b", ext |-> "mp4"]}

SIDECAR_EXTENSIONS == {"xmp"}

SidecarNames == [stem : Stems, ext : SIDECAR_EXTENSIONS]

IMAGE_EXTENSIONS == {"jpg"}

VIDEO_EXTENSIONS == {"mp4"}

\* capture time: the calendar day and the time of day
CaptureTimes == [day : 1..MaxDay, time : {"12:00"}]

\* one directory of the source tree: a media file, its content, its capture
\* time, and the content of its same-stem sidecar (NoFile: no sidecar)
SourceFile == [name : MediaNames, content : 1..MaxContent,
               created : CaptureTimes, sidecar : 0..MaxSidecar]

\* the source trees; contents are interchangeable, so the file of the first
\* directory is taken to have content 1
SourceTrees ==
    {t \in UNION {[1..n -> SourceFile] : n \in 1..MaxCand} : t[1].content = 1}

\* the source trees of the scenarios that follow imports with scans
ScanTrees == {t \in SourceTrees : Len(t) <= MaxScanCand}

\* the content of a file that was truncated to length zero
Truncated == MaxContent + 1

\* ------------------------------------------------------------ pure helpers
\* hash_file: the digest of a content, as text
hash_file(content) == <<content>>

\* format!("{}-alt", hash)
AltHash(hash) == Append(hash, "-alt")

\* the digest a hash column was made from
Digest(hash) == <<hash[1]>>

IsAlt(hash) == Len(hash) = 2

detect_media_type(name) ==
    IF name.ext \in IMAGE_EXTENSIONS THEN "image"
    ELSE IF name.ext \in VIDEO_EXTENSIONS THEN "video"
    ELSE "none"

folder_name(media_type) == IF media_type = "image" THEN "images" ELSE "videos"

\* PATH_DATE_FORMAT keeps the calendar day and drops the time of day
PATH_DATE_FORMAT(created_at) == created_at.day

\* "{folder}/{date}"
RelPath(media_type, created_at) ==
    [folder |-> folder_name(media_type), date |-> PATH_DATE_FORMAT(created_at)]

\* root.join(relpath).join(filename)
DestPath(relpath, filename) ==
    [folder |-> relpath.folder, date |-> relpath.date, name |-> filename]

LibPaths == [folder : {"images", "videos", "other"}, date : 1..MaxDay,
             name : MediaNames \cup SidecarNames]

\* the content of a file of the source tree
ReadSource(tree, path) ==
    IF path.name.ext \in SIDECAR_EXTENSIONS
    THEN tree[path.dir].sidecar
    ELSE tree[path.dir].content

\* whether a source path lies below the library root
IsLibPath(path) == "folder" \in DOMAIN path

\* fs::copy(from, to): what the destination holds afterwards; the
\* destination is opened with truncate before the source is read, so a copy
\* of a file onto itself leaves it empty
CopiedContent(tree, fs, fc) ==
    IF IsLibPath(fc.source)
    THEN IF fc.source = fc.destination THEN Truncated ELSE fs[fc.source]
    ELSE ReadSource(tree, fc.source)

\* find_sidecars + process_sidecar: the same-stem sidecars that exist
FindSidecars(tree, i) ==
    IF tree[i].sidecar = NoFile THEN <<>>
    ELSE << [source_path |-> [dir |-> i,
                              name |-> [stem |-> tree[i].name.stem, ext |-> "xmp"]],
             filename |-> [stem |-> tree[i].name.stem, ext |-> "xmp"],
             hash |-> hash_file(tree[i].sidecar)] >>

\* process_source_file: the candidate of the media file of directory i
process_source_file(tree, i) ==
    [source_path |-> [dir |-> i, name |-> tree[i].name],
     hash |-> hash_file(tree[i].content),
     media_type |-> detect_media_type(tree[i].name),
     created_at |-> tree[i].created,
     filename |-> tree[i].name,
     sidecars |-> FindSidecars(tree, i)]

Candidates(tree) == [i \in 1..Len(tree) |-> process_source_file(tree, i)]

\* find_sidecars + process_sidecar for a media file below the library root
FindLibSidecars(fs, p) ==
    LET sp == [p EXCEPT !.name = [stem |-> p.name.stem, ext |-> "xmp"]]
    IN  IF fs[sp] = NoFile THEN <<>>
        ELSE << [source_path |-> sp, filename |-> sp.name,
                 hash |-> hash_file(fs[sp])] >>

\* process_source_file for a media file below the library root; its capture
\* day is the day of the directory it is filed under
LibraryCandidate(fs, p) ==
    [source_path |-> p,
     hash |-> hash_file(fs[p]),
     media_type |-> detect_media_type(p.name),
     created_at |-> [day |-> p.date, time |-> "12:00"],
     filename |-> p.name,
     sidecars |-> FindLibSidecars(fs, p)]

\* the media files WalkDir finds below the library root
LibraryMediaFiles(fs) ==
    {p \in DOMAIN fs : fs[p] # NoFile /\ detect_media_type(p.name) # "none"}

\* the candidates of an import whose source is the library root, in one
\* order of the walk
RECURSIVE LibraryCandidates(_, _)
LibraryCandidates(fs, paths) ==
    IF paths = {} THEN <<>>
    ELSE LET p == CHOOSE x \in paths : TRUE
         IN  <<LibraryCandidate(fs, p)>> \o LibraryCandidates(fs, paths \ {p})

\* variant: the lookup never finds the hash
hash_exists_never(rows, hash) == FALSE

\* Database::hash_exists
hash_exists(rows, hash) == \E r \in rows : r.hash = hash

\* --------------------------------------------------------------- dedup loop
MapPut(map, key, value) ==
    [k \in (DOMAIN map) \cup {key} |-> IF k = key THEN value ELSE map[k]]

\* the operator's answers at the "Choice [1/2/B]" prompt
Answers == {"1", "2", "B"}

\* the existing-library duplicate test at the head of the loop body
AlreadyInLibrary(rows, candidate) == hash_exists(rows, candidate.hash)

\* the branch taken when both members of a hash group have sidecars
ResolveConflict(map, dups, candidate, answer) ==
    IF answer = "2"
    THEN [map |-> [map EXCEPT ![candidate.hash] = candidate], dups |-> dups]
    ELSE IF answer = "B"
    THEN [map |-> MapPut(map, AltHash(candidate.hash),
                         [candidate EXCEPT !.hash = AltHash(candidate.hash)]),
          dups |-> dups]
    ELSE [map |-> map, dups |-> dups + 1]

\* variant: the candidate with sidecars replaces the existing entry
MergeSidecars_replace(map, dups, candidate) ==
    [map |-> [map EXCEPT ![candidate.hash] = candidate], dups |-> dups + 1]

\* the branch taken when the existing entry has no sidecars and the candidate has
MergeSidecars(map, dups, candidate) ==
    [map |-> [map EXCEPT ![candidate.hash].sidecars = @ \o candidate.sidecars],
     dups |-> dups + 1]

\* one pass of the body of "for candidate in candidates"
DedupOne(rows, map, dups, candidate, answer) ==
    IF AlreadyInLibrary(rows, candidate)
    THEN [map |-> map, dups |-> dups + 1]
    ELSE IF candidate.hash \notin DOMAIN map
    THEN [map |-> MapPut(map, candidate.hash, candidate), dups |-> dups]
    ELSE IF map[candidate.hash].sidecars # <<>> /\ candidate.sidecars # <<>>
    THEN ResolveConflict(map, dups, candidate, answer)
    ELSE IF candidate.sidecars = <<>>
    THEN [map |-> map, dups |-> dups + 1]
    ELSE MergeSidecars(map, dups, candidate)

\* whether the loop body prompts the operator for this candidate
Prompts(rows, map, candidate) ==
    /\ ~AlreadyInLibrary(rows, candidate)
    /\ candidate.hash \in DOMAIN map
    /\ map[candidate.hash].sidecars # <<>>
    /\ candidate.sidecars # <<>>

\* the orders in which HashMap::into_values can yield the entries
ValueOrders(map) ==
    {ord \in [1..Cardinality(DOMAIN map) -> DOMAIN map] :
        \A i, j \in 1..Cardinality(DOMAIN map) : i # j => ord[i] # ord[j]}

\* ------------------------------------------------------------ copy planning
\* the copies of one candidate: the media file, then each sidecar
CopiesOf(candidate) ==
    LET rel == RelPath(candidate.media_type, candidate.created_at)
    IN  << [source |-> candidate.source_path,
            destination |-> DestPath(rel, candidate.filename)] >>
        \o [k \in 1..Len(candidate.sidecars) |->
              [source |-> candidate.sidecars[k].source_path,
               destination |-> DestPath(rel, candidate.sidecars[k].filename)]]

RECURSIVE PlanCopies(_)
PlanCopies(cands) ==
    IF cands = <<>> THEN <<>>
    ELSE CopiesOf(Head(cands)) \o PlanCopies(Tail(cands))

\* whether a planned copy is dispatched, given the destinations already seen
KeepCopy(seen, fc) == fc.destination \notin seen

\* "Deduplicate by destination path": the first copy of each destination
RECURSIVE DedupeCopies(_, _)
DedupeCopies(fcs, seen) ==
    IF fcs = <<>> THEN <<>>
    ELSE IF KeepCopy(seen, Head(fcs))
    THEN <<Head(fcs)>> \o DedupeCopies(Tail(fcs), seen \cup {Head(fcs).destination})
    ELSE DedupeCopies(Tail(fcs), seen)

\* ------------------------------------------------------------- transaction
\* INTEGER PRIMARY KEY: one more than the largest rowid in the table
NextRowId(rows) ==
    IF rows = {} THEN 1
    ELSE (CHOOSE m \in {r.id : r \in rows} : \A r \in rows : r.id <= m) + 1

\* variant: the hash column without its UNIQUE constraint
UniqueHashOk_none(rows, hash) == TRUE

\* hash TEXT UNIQUE NOT NULL
UniqueHashOk(rows, hash) == ~(\E r \in rows : r.hash = hash)

\* UNIQUE(media_id, filename)
UniqueSidecarOk(rows, media_id, filename) ==
    ~(\E r \in rows : r.media_id = media_id /\ r.filename = filename)

\* variant: every row is filed under the images folder
InsertRelPath_images(candidate) == RelPath("image", candidate.created_at)

\* the relpath column of the INSERT INTO media
InsertRelPath(candidate) == RelPath(candidate.media_type, candidate.created_at)

MediaRow(id, candidate) ==
    [id |-> id, hash |-> candidate.hash, filename |-> candidate.filename,
     relpath |-> InsertRelPath(candidate), media_type |-> candidate.media_type,
     created_at |-> candidate.created_at]

RECURSIVE InsertSidecars(_, _, _)
InsertSidecars(rows, media_id, scs) ==
    IF scs = <<>> THEN [ok |-> TRUE, sidecars |-> rows]
    ELSE IF ~UniqueSidecarOk(rows, media_id, Head(scs).filename)
    THEN [ok |-> FALSE, sidecars |-> rows]
    ELSE InsertSidecars(
             rows \cup {[media_id |-> media_id, filename |-> Head(scs).filename,
                         hash |-> Head(scs).hash]},
             media_id, Tail(scs))

\* the INSERT loop over to_import inside the transaction; ok is FALSE when a
\* statement fails on a constraint (the "?" returns and the transaction rolls back)
RECURSIVE TxInsert(_, _, _)
TxInsert(cands, mrows, srows) ==
    IF cands = <<>> THEN [ok |-> TRUE, media |-> mrows, sidecars |-> srows]
    ELSE IF ~UniqueHashOk(mrows, Head(cands).hash)
    THEN [ok |-> FALSE, media |-> mrows, sidecars |-> srows]
    ELSE LET id == NextRowId(mrows)
             ins == InsertSidecars(srows, id, Head(cands).sidecars)
         IN  IF ~ins.ok
             THEN [ok |-> FALSE, media |-> mrows, sidecars |-> srows]
             ELSE TxInsert(Tail(cands), mrows \cup {MediaRow(id, Head(cands))},
                           ins.sidecars)

CountType(cands, t) == Cardinality({i \in 1..Len(cands) : cands[i].media_type = t})

RECURSIVE CountSidecars(_)
CountSidecars(cands) ==
    IF cands = <<>> THEN 0
    ELSE Len(Head(cands).sidecars) + CountSidecars(Tail(cands))

\* ImportStats
ImportStats(images, videos, scs, dups) ==
    [images_imported |-> images, videos_imported |-> videos,
     sidecars_imported |-> scs, duplicates_skipped |-> dups]

NoStats == ImportStats(0, 0, 0, 0)

\* ---------------------------------------------------------- reconciliation
\* root.join(relpath).join(filename) of a media row
MediaPath(row) == DestPath(row.relpath, row.filename)

\* the media row a sidecar row joins to
OwnerOf(rows, sc) == CHOOSE m \in rows : m.id = sc.media_id

\* the rows of "sidecars s JOIN media m ON s.media_id = m.id"
Joined(mrows, srows) == {sc \in srows : \E m \in mrows : m.id = sc.media_id}

SidecarPath(mrows, sc) == DestPath(OwnerOf(mrows, sc).relpath, sc.filename)

find_missing_files(mrows, fs) == {m \in mrows : fs[MediaPath(m)] = NoFile}

find_orphaned_sidecars(mrows, srows, fs) ==
    {sc \in Joined(mrows, srows) : fs[SidecarPath(mrows, sc)] = NoFile}

find_modified_sidecars(mrows, srows, fs) ==
    {sc \in Joined(mrows, srows) :
        /\ fs[SidecarPath(mrows, sc)] # NoFile
        /\ hash_file(fs[SidecarPath(mrows, sc)]) # sc.hash}

\* the paths the index knows, as find_new_files collects them
known_paths(mrows, srows) ==
    {MediaPath(m) : m \in mrows}
        \cup {SidecarPath(mrows, sc) : sc \in Joined(mrows, srows)}

find_new_files(mrows, srows, fs) ==
    {p \in DOMAIN fs :
        /\ p.folder \in {"images", "videos"}
        /\ fs[p] # NoFile
        /\ p \notin known_paths(mrows, srows)
        /\ detect_media_type(p.name) # "none"}

\* variant: the sidecar rows of a deleted media row stay
DeleteMedia_nocascade(mrows, srows, ids) ==
    [media |-> {m \in mrows : m.id \notin ids}, sidecars |-> srows]

\* DELETE FROM media WHERE id = ?: the rows of table sidecars that reference
\* a deleted row go with it (ON DELETE CASCADE)
DeleteMedia(mrows, srows, ids) ==
    [media |-> {m \in mrows : m.id \notin ids},
     sidecars |-> {sc \in srows : sc.media_id \notin ids}]

MissingAnswers == {"R", "S", "I"}

YesNo == {"Y", "n"}

\* handle_missing_files: R removes every missing row, S the rows answered y
handle_missing_files(mrows, srows, missing, answer, chosen) ==
    IF answer = "R" THEN DeleteMedia(mrows, srows, {m.id : m \in missing})
    ELSE IF answer = "S" THEN DeleteMedia(mrows, srows, {m.id : m \in chosen})
    ELSE [media |-> mrows, sidecars |-> srows]

\* handle_orphaned_sidecars: DELETE FROM sidecars WHERE id = ?
handle_orphaned_sidecars(srows, orphaned, answer) ==
    IF answer # "n" THEN srows \ orphaned ELSE srows

\* handle_modified_sidecars: UPDATE sidecars SET hash = ? WHERE id = ?
handle_modified_sidecars(mrows, srows, modified, fs, answer) ==
    IF answer # "n"
    THEN {IF sc \in modified /\ \E m \in mrows : m.id = sc.media_id
          THEN [sc EXCEPT !.hash = hash_file(fs[SidecarPath(mrows, sc)])]
          ELSE sc : sc \in srows}
    ELSE srows

\* handle_scan_results on the result of scan_library: the three categories
\* that change the index, in the order of the handlers
handle_scan_results(mrows, srows, fs, am, chosen, ao, amod) ==
    LET missing == find_missing_files(mrows, fs)
        orphaned == find_orphaned_sidecars(mrows, srows, fs)
        modified == find_modified_sidecars(mrows, srows, fs)
        r1 == IF missing # {}
              THEN handle_missing_files(mrows, srows, missing, am, chosen)
              ELSE [media |-> mrows, sidecars |-> srows]
        s2 == IF orphaned # {}
              THEN handle_orphaned_sidecars(r1.sidecars, orphaned, ao)
              ELSE r1.sidecars
        s3 == IF modified # {}
              THEN handle_modified_sidecars(mrows, s2, modified, fs, amod)
              ELSE s2
    IN  [media |-> r1.media, sidecars |-> s3]

\* ------------------------------------------------------------------- state
VARIABLES
    source,        \* the source tree
    media,         \* committed rows of table media
    sidecars,      \* committed rows of table sidecars
    libfs,         \* files below the library root: path -> content
    pc,            \* position of the running command
    dry_run,
    candidates,
    idx,           \* next candidate of the dedup loop
    answers,       \* what the operator typed for each candidate ("-": no prompt)
    unique_by_hash,
    duplicates_skipped,
    to_import,
    file_copies,
    copied,        \* indices of file_copies whose worker has finished
    copy_failures,
    tx,            \* the open transaction: the rows it sees, not yet committed
    result,        \* what import returned
    stats,         \* the ImportStats it returned
    start,         \* index and files as they were when the run began
    repeat,        \* the last index change was a successful import of source
    faults,        \* failed copies, interruptions and deleted files so far
    scan_result,   \* the ScanResult the running scan command works on
    todo,          \* the entries the running handler has still to visit
    choice,        \* the operator's answer at the prompt of the running handler
    accepted,      \* the entries whose row change the operator has accepted
    edits,         \* files added or deleted by hand so far
    size_str,      \* search: the text of the --size argument
    file_sizes,    \* search: column file_size of the rows of table media
    query,         \* search: min_size and max_size of the SearchQuery
    found,         \* search: column file_size of the rows search returned
    stamps,        \* two timestamps the commands are about to store
    stored,        \* their texts in the database
    later,         \* which of the two the comparison of the texts calls later
    backup_history, \* rows of table backup_history
    backup_state,  \* rows of table backup_state
    backup_pc,     \* position of the running backup command
    backup_call,   \* dry_run, backup_id and result of the running backup()
    remote_media,  \* rows of table media of the remote library
    remote_sidecars, \* rows of table sidecars of the remote library
    remotefs,      \* files below the root of the remote library
    push_pc,       \* position of the running push command
    push_call,     \* the locals of the running push()
    push_todo,     \* the push_file calls push() has still to make
    root_dir,      \* the directory Library::create and ::open are called on
    lib_call,      \* the last create or open call and what it returned
    workers,       \* import: what each copy worker that has started found
    failure_list,  \* import: the entries of the CopyFailures collection
    meta,          \* import: what one file offers as sources of its date
    extracted,     \* import: the created_at the extraction step gave it
    date_arg,      \* search: the text of the --date argument
    created_rows,  \* search: capture time and created_at of the media rows
    date_query,    \* search: date_start and date_end of the SearchQuery
    date_found     \* search: the rows the date filter returned

vars == <<source, media, sidecars, libfs, pc, dry_run, candidates, idx, answers,
          unique_by_hash, duplicates_skipped, to_import, file_copies, copied,
          copy_failures, tx, result, stats, start, repeat, faults,
          scan_result, todo, choice, accepted, edits,
          size_str, file_sizes, query, found, stamps, stored, later,
          backup_history, backup_state, backup_pc, backup_call,
          remote_media, remote_sidecars, remotefs, push_pc, push_call,
          push_todo, root_dir, lib_call, workers, failure_list,
          meta, extracted, date_arg, created_rows, date_query, date_found>>

\* the variables of the library commands import and scan
libVars == <<source, media, sidecars, libfs, pc, dry_run, candidates, idx, answers,
             unique_by_hash, duplicates_skipped, to_import, file_copies, copied,
             copy_failures, tx, result, stats, start, repeat, faults,
             scan_result, todo, choice, accepted, edits>>

\* the variables of the search command
searchVars == <<size_str, file_sizes, query, found>>

\* the variables of the stored timestamps
dateVars == <<stamps, stored, later>>

\* the variables of the backup command
backupVars == <<backup_history, backup_state, backup_pc, backup_call>>

\* the variables of the push command
pushVars == <<remote_media, remote_sidecars, remotefs, push_pc, push_call,
              push_todo>>

\* the variables import and scan leave alone
oldToolVars == <<searchVars, dateVars, backupVars, pushVars>>

\* the variables of Library::create and Library::open
createVars == <<root_dir, lib_call>>

\* the variables of the copy workers of import
copyVars == <<workers, failure_list>>

\* the variables of the metadata extraction of import
extractVars == <<meta, extracted>>

\* the variables of the date filter of search
dateFilterVars == <<date_arg, created_rows, date_query, date_found>>

moreVars == <<createVars, copyVars, extractVars, dateFilterVars>>

toolVars == <<oldToolVars, moreVars>>

\* the variables of the scan command
scanVars == <<scan_result, todo, choice, accepted>>

\* the variables an import run leaves alone
otherVars == <<scanVars, edits>>

runVars == <<dry_run, candidates, idx, answers, unique_by_hash, duplicates_skipped,
             to_import, file_copies, copied, copy_failures, tx, result, stats,
             start>>

EmptyMap == [h \in {} |-> 0]

NoTx == [open |-> FALSE, media |-> {}, sidecars |-> {}]

\* no scan is running (scanned: scan_library has filled the lists)
NoScan == [scanned |-> FALSE, missing_files |-> <<>>, orphaned_sidecars |-> <<>>,
           modified_sidecars |-> <<>>, new_files |-> {}]

NoStart == [media |-> {}, sidecars |-> {}, libfs |-> <<>>, repeat |-> FALSE]

\* Option::None and Option::Some(v)
None == [some |-> FALSE]

Some(v) == [some |-> TRUE, value |-> v]

\* SearchQuery::default(): no size filter
NoQuery == [parsed |-> FALSE, min_size |-> None, max_size |-> None]

\* search has not run
NotRun == {-1}

\* no create or open call has been made
NoLibCall == [op |-> "none", result |-> "none", before |-> <<>>]

\* no push() call is running
NoPush == [dry_run |-> FALSE, is_ssh |-> FALSE, before |-> <<>>,
           conflicts |-> <<>>, next_conflict |-> 1, all_local |-> FALSE,
           all_skip |-> FALSE, resolutions |-> <<>>, answered |-> <<>>,
           in_sync |-> FALSE, pushed |-> 0, result |-> "none"]

\* no backup() call is running
NoCall == [dry_run |-> FALSE, backup_id |-> 0, result |-> "none", before |-> {}]

\* the values of the variables of a run when no command is running
RunReset ==
    /\ dry_run' = FALSE
    /\ candidates' = <<>>
    /\ idx' = 1
    /\ answers' = <<>>
    /\ unique_by_hash' = EmptyMap
    /\ duplicates_skipped' = 0
    /\ to_import' = <<>>
    /\ file_copies' = <<>>
    /\ copied' = {}
    /\ copy_failures' = <<>>
    /\ tx' = NoTx
    /\ result' = "none"
    /\ stats' = NoStats
    /\ start' = NoStart

\* no command is running and nothing has happened to the library yet
InitIdle ==
    /\ pc = "idle"
    /\ dry_run = FALSE
    /\ candidates = <<>>
    /\ idx = 1
    /\ answers = <<>>
    /\ unique_by_hash = EmptyMap
    /\ duplicates_skipped = 0
    /\ to_import = <<>>
    /\ file_copies = <<>>
    /\ copied = {}
    /\ copy_failures = <<>>
    /\ tx = NoTx
    /\ result = "none"
    /\ stats = NoStats
    /\ start = NoStart
    /\ repeat = FALSE
    /\ faults = 0
    /\ scan_result = NoScan
    /\ todo = <<>>
    /\ choice = "-"
    /\ accepted = {}
    /\ edits = 0

\* Library::create on a fresh directory, and a source tree to import from
InitLibrary ==
    /\ media = {}
    /\ sidecars = {}
    /\ libfs = [p \in LibPaths |-> NoFile]
    /\ InitIdle

\* no search has been asked for
NoSearch ==
    /\ size_str = <<>>
    /\ file_sizes = {}
    /\ query = NoQuery
    /\ found = NotRun

\* none of the other commands is in use
\* no timestamps are compared
NoDates ==
    /\ stamps = <<>>
    /\ stored = <<>>
    /\ later = "unset"

\* no backup was ever made
NoBackups ==
    /\ backup_history = {}
    /\ backup_state = {}
    /\ backup_pc = "idle"
    /\ backup_call = NoCall

\* no remote library is in use
NoRemote ==
    /\ remote_media = {}
    /\ remote_sidecars = {}
    /\ remotefs = [p \in LibPaths |-> NoFile]
    /\ push_pc = "idle"
    /\ push_call = NoPush
    /\ push_todo = <<>>

\* no library is being created or opened
NoCreate ==
    /\ root_dir = [kind |-> "missing", images |-> FALSE, videos |-> FALSE,
                   db |-> [present |-> FALSE, rows |-> {}]]
    /\ lib_call = NoLibCall

\* no copy worker has started
NoWorkers ==
    /\ workers = <<>>
    /\ failure_list = <<>>

\* no file is being looked at
NoMeta == [tool |-> "none"]

NoExtract ==
    /\ meta = NoMeta
    /\ extracted = None

\* no search by date has been asked for
NoDateFilter ==
    /\ date_arg = <<>>
    /\ created_rows = {}
    /\ date_query = None
    /\ date_found = None

\* none of the later commands is in use
NoMore == NoCreate /\ NoWorkers /\ NoExtract /\ NoDateFilter

InitTools == NoSearch /\ NoDates /\ NoBackups /\ NoRemote /\ NoMore

Init == source \in SourceTrees /\ InitLibrary /\ InitTools

\* the same, with the smaller source trees of the scan scenarios
ScanInit == source \in ScanTrees /\ InitLibrary /\ InitTools

\* import(source_dir, dry_run): phase 1, the candidates of the source tree
ImportStart ==
    /\ pc = "idle"
    /\ \E d \in BOOLEAN : dry_run' = d
    /\ candidates' = Candidates(source)
    /\ idx' = 1
    /\ answers' = <<>>
    /\ unique_by_hash' = EmptyMap
    /\ duplicates_skipped' = 0
    /\ start' = [media |-> media, sidecars |-> sidecars, libfs |-> libfs,
                 repeat |-> repeat]
    /\ pc' = "dedup"
    /\ UNCHANGED <<source, media, sidecars, libfs, to_import, file_copies,
                   copied, copy_failures, tx, result, stats, repeat, faults>>
    /\ UNCHANGED otherVars
    /\ UNCHANGED toolVars

\* import(source_dir, dry_run) with the library root as source_dir, run when
\* the library holds files the index does not know
ImportLibraryStart ==
    /\ pc = "idle"
    /\ find_new_files(media, sidecars, libfs) # {}
    /\ dry_run' = FALSE
    /\ candidates' = LibraryCandidates(libfs, LibraryMediaFiles(libfs))
    /\ idx' = 1
    /\ answers' = <<>>
    /\ unique_by_hash' = EmptyMap
    /\ duplicates_skipped' = 0
    /\ start' = [media |-> media, sidecars |-> sidecars, libfs |-> libfs,
                 repeat |-> FALSE]
    /\ pc' = "dedup"
    /\ UNCHANGED <<source, media, sidecars, libfs, to_import, file_copies,
                   copied, copy_failures, tx, result, stats, repeat, faults>>
    /\ UNCHANGED otherVars
    /\ UNCHANGED toolVars

\* one pass of the dedup loop, with the operator's answer when it prompts
DedupStep ==
    /\ pc = "dedup"
    /\ idx <= Len(candidates)
    /\ \E answer \in Answers :
         /\ (~Prompts(media, unique_by_hash, candidates[idx]) => answer = "1")
         /\ answers' = Append(answers, IF Prompts(media, unique_by_hash, candidates[idx])
                                       THEN answer ELSE "-")
         /\ LET r == DedupOne(media, unique_by_hash, duplicates_skipped,
                              candidates[idx], answer)
            IN  /\ unique_by_hash' = r.map
                /\ duplicates_skipped' = r.dups
    /\ idx' = idx + 1
    /\ UNCHANGED <<source, media, sidecars, libfs, pc, dry_run, candidates,
                   to_import, file_copies, copied, copy_failures, tx, result,
                   stats, start, repeat, faults>>
    /\ UNCHANGED otherVars
    /\ UNCHANGED toolVars

\* variant: the dry-run flag is ignored
DryRunReturns_never(dry) == FALSE

\* whether import returns after the dedup loop without copying or writing
DryRunReturns(dry) == dry

\* the end of the dedup loop: to_import, then the dry-run return
DryRunReturn ==
    /\ pc = "dedup"
    /\ idx > Len(candidates)
    /\ DryRunReturns(dry_run)
    /\ \E ord \in ValueOrders(unique_by_hash) :
         to_import' = [i \in DOMAIN ord |-> unique_by_hash[ord[i]]]
    /\ result' = "Ok"
    /\ stats' = ImportStats(0, 0, 0, duplicates_skipped)
    /\ pc' = "done"
    /\ UNCHANGED <<source, media, sidecars, libfs, dry_run, candidates, idx, answers,
                   unique_by_hash, duplicates_skipped, file_copies, copied,
                   copy_failures, tx, start, repeat, faults>>
    /\ UNCHANGED otherVars
    /\ UNCHANGED toolVars

\* the end of the dedup loop: to_import, then the planned and deduplicated copies
PlanStep ==
    /\ pc = "dedup"
    /\ idx > Len(candidates)
    /\ ~DryRunReturns(dry_run)
    /\ \E ord \in ValueOrders(unique_by_hash) :
         /\ to_import' = [i \in DOMAIN ord |-> unique_by_hash[ord[i]]]
         /\ file_copies' = DedupeCopies(PlanCopies(to_import'), {})
    /\ copied' = {}
    /\ copy_failures' = <<>>
    /\ pc' = "copy"
    /\ UNCHANGED <<source, media, sidecars, libfs, dry_run, candidates, idx, answers,
                   unique_by_hash, duplicates_skipped, tx, result, stats, start,
                   repeat, faults>>
    /\ UNCHANGED otherVars
    /\ UNCHANGED toolVars

\* what fs::create_dir_all and fs::copy can do for one planned copy
CopyOutcomes == {"ok", "mkdir_failed", "copy_failed"}

\* one worker of file_copies.par_iter().for_each
CopyStep ==
    /\ pc = "copy"
    /\ \E i \in (1..Len(file_copies)) \ copied :
         /\ copied' = copied \cup {i}
         /\ \E outcome \in CopyOutcomes :
              IF outcome = "ok"
              THEN /\ libfs' = [libfs EXCEPT ![file_copies[i].destination] =
                                   CopiedContent(source, libfs, file_copies[i])]
                   /\ UNCHANGED <<copy_failures, faults>>
              ELSE /\ faults < MaxFaults
                   /\ faults' = faults + 1
                   /\ copy_failures' = Append(copy_failures, file_copies[i])
                   /\ UNCHANGED libfs
    /\ UNCHANGED <<source, media, sidecars, pc, dry_run, candidates, idx, answers,
                   unique_by_hash, duplicates_skipped, to_import, file_copies,
                   tx, result, stats, start, repeat>>
    /\ UNCHANGED otherVars
    /\ UNCHANGED toolVars

\* variant: the index phase does not wait for the copy workers
AllCopiesDone_nowait(done, fcs) == TRUE

\* par_iter().for_each returns when every worker has finished
AllCopiesDone(done, fcs) == done = 1..Len(fcs)

\* variant: the collected failures are ignored
CopyPhaseFailed_ignored(failures) == FALSE

\* "if !failures.is_empty()"
CopyPhaseFailed(failures) == failures # <<>>

\* the copies have failed: return Err(CopyFailed(failures))
CopyFailedReturn ==
    /\ pc = "copy"
    /\ AllCopiesDone(copied, file_copies)
    /\ CopyPhaseFailed(copy_failures)
    /\ result' = "CopyFailed"
    /\ pc' = "done"
    /\ UNCHANGED <<source, media, sidecars, libfs, dry_run, candidates, idx, answers,
                   unique_by_hash, duplicates_skipped, to_import, file_copies,
                   copied, copy_failures, tx, stats, start, repeat, faults>>
    /\ UNCHANGED otherVars
    /\ UNCHANGED toolVars

\* phase 3: conn.transaction() and the INSERT loop; a failed statement
\* returns the error and the dropped transaction rolls back
TxStep ==
    /\ pc = "copy"
    /\ AllCopiesDone(copied, file_copies)
    /\ ~CopyPhaseFailed(copy_failures)
    /\ LET ins == TxInsert(to_import, media, sidecars)
       IN  IF ins.ok
           THEN /\ tx' = [open |-> TRUE, media |-> ins.media,
                          sidecars |-> ins.sidecars]
                /\ pc' = "commit"
                /\ UNCHANGED result
           ELSE /\ tx' = NoTx
                /\ result' = "Database"
                /\ pc' = "done"
    /\ UNCHANGED <<source, media, sidecars, libfs, dry_run, candidates, idx, answers,
                   unique_by_hash, duplicates_skipped, to_import, file_copies,
                   copied, copy_failures, stats, start, repeat, faults>>
    /\ UNCHANGED otherVars
    /\ UNCHANGED toolVars

\* tx.commit() and the Ok(ImportStats) return
CommitStep ==
    /\ pc = "commit"
    /\ media' = tx.media
    /\ sidecars' = tx.sidecars
    /\ tx' = NoTx
    /\ result' = "Ok"
    /\ stats' = ImportStats(CountType(to_import, "image"),
                            CountType(to_import, "video"),
                            CountSidecars(to_import), duplicates_skipped)
    /\ repeat' = TRUE
    /\ pc' = "done"
    /\ UNCHANGED <<source, libfs, dry_run, candidates, idx, answers, unique_by_hash,
                   duplicates_skipped, to_import, file_copies, copied,
                   copy_failures, start, faults>>
    /\ UNCHANGED otherVars
    /\ UNCHANGED toolVars

\* the command has returned; the process exits
Return ==
    /\ pc = "done"
    /\ pc' = "idle"
    /\ RunReset
    /\ scan_result' = NoScan
    /\ todo' = <<>>
    /\ choice' = "-"
    /\ accepted' = {}
    /\ UNCHANGED <<source, media, sidecars, libfs, repeat, faults, edits>>
    /\ UNCHANGED toolVars

\* the process is terminated during a run: an open transaction is lost
Interrupt ==
    /\ pc \in {"dedup", "copy", "commit"}
    /\ faults < MaxFaults
    /\ faults' = faults + 1
    /\ pc' = "idle"
    /\ RunReset
    /\ UNCHANGED <<source, media, sidecars, libfs, repeat>>
    /\ UNCHANGED otherVars
    /\ UNCHANGED toolVars

\* between commands the operator deletes a file below the library root
DeleteFile ==
    /\ pc = "idle"
    /\ faults < MaxFaults
    /\ faults' = faults + 1
    /\ \E p \in LibPaths :
         /\ libfs[p] # NoFile
         /\ libfs' = [libfs EXCEPT ![p] = NoFile]
    /\ UNCHANGED <<source, media, sidecars, pc, repeat, runVars>>
    /\ UNCHANGED otherVars
    /\ UNCHANGED toolVars

\* between commands the operator puts a media file below the library root
AddFile ==
    /\ pc = "idle"
    /\ edits < MaxEdits
    /\ edits' = edits + 1
    /\ \E p \in LibPaths, c \in 1..MaxContent :
         /\ libfs[p] = NoFile
         /\ detect_media_type(p.name) # "none"
         /\ p.folder \in {folder_name(detect_media_type(p.name)), "other"}
         /\ libfs' = [libfs EXCEPT ![p] = c]
    /\ UNCHANGED <<source, media, sidecars, pc, repeat, faults, runVars, scanVars>>
    /\ UNCHANGED toolVars

\* scan_library, then handle_scan_results with the operator's answers
ScanResolve ==
    /\ pc = "idle"
    /\ \E am \in MissingAnswers, ao \in YesNo, ao2 \in YesNo :
         \E chosen \in SUBSET find_missing_files(media, libfs) :
           LET r == handle_scan_results(media, sidecars, libfs, am, chosen, ao, ao2)
           IN  /\ media' = r.media
               /\ sidecars' = r.sidecars
               /\ repeat' = (repeat /\ r.media = media /\ r.sidecars = sidecars)
    /\ UNCHANGED <<source, libfs, pc, faults, runVars>>
    /\ UNCHANGED otherVars
    /\ UNCHANGED toolVars

\* ------------------------------------------------------- the scan command
\* the rows of "SELECT ... FROM media" in rowid order
RECURSIVE MediaInOrder(_)
MediaInOrder(rows) ==
    IF rows = {} THEN <<>>
    ELSE LET r == CHOOSE x \in rows : \A y \in rows : x.id <= y.id
         IN  <<r>> \o MediaInOrder(rows \ {r})

\* the rows of "SELECT ... FROM sidecars s JOIN media m" in the order of the
\* media they belong to
RECURSIVE SidecarsInOrder(_)
SidecarsInOrder(rows) ==
    IF rows = {} THEN <<>>
    ELSE LET r == CHOOSE x \in rows : \A y \in rows : x.media_id <= y.media_id
         IN  <<r>> \o SidecarsInOrder(rows \ {r})

\* a ModifiedSidecar: the row and the hash of the file as the scan read it
ModifiedEntry(mrows, sc, fs) ==
    [media_id |-> sc.media_id, filename |-> sc.filename, old_hash |-> sc.hash,
     new_hash |-> hash_file(fs[SidecarPath(mrows, sc)])]

\* scan_library: the four lists of a ScanResult
scan_library(mrows, srows, fs) ==
    [scanned |-> TRUE,
     missing_files |-> MediaInOrder(find_missing_files(mrows, fs)),
     orphaned_sidecars |->
         SidecarsInOrder(find_orphaned_sidecars(mrows, srows, fs)),
     modified_sidecars |->
         LET ms == SidecarsInOrder(find_modified_sidecars(mrows, srows, fs))
         IN  [k \in 1..Len(ms) |-> ModifiedEntry(mrows, ms[k], fs)],
     new_files |-> find_new_files(mrows, srows, fs)]

\* ScanResult::is_clean
is_clean(r) ==
    /\ r.missing_files = <<>>
    /\ r.orphaned_sidecars = <<>>
    /\ r.modified_sidecars = <<>>
    /\ r.new_files = {}

\* DELETE FROM sidecars WHERE id = ?
DeleteSidecar(srows, f) ==
    {sc \in srows : ~(sc.media_id = f.media_id /\ sc.filename = f.filename)}

\* UPDATE sidecars SET hash = ?1 WHERE id = ?3
UpdateSidecar(srows, f) ==
    {IF sc.media_id = f.media_id /\ sc.filename = f.filename
     THEN [sc EXCEPT !.hash = f.new_hash] ELSE sc : sc \in srows}

Range(seq) == {seq[k] : k \in 1..Len(seq)}

\* variant: the rows written before the error stay in the index
Rollback_keeps(committed, written) == written

\* a dropped transaction: the index keeps its committed rows
Rollback(committed, written) == committed

\* the handler returns an error through "?": the open transaction is dropped
\* and handle_scan_results returns the error
ScanError(kind) ==
    /\ media' = Rollback(media, tx.media)
    /\ sidecars' = Rollback(sidecars, tx.sidecars)
    /\ tx' = NoTx
    /\ todo' = <<>>
    /\ result' = kind
    /\ pc' = "done"
    /\ UNCHANGED <<repeat, choice, accepted>>

\* the scan command: scan_library, then the head of handle_scan_results
ScanStart ==
    /\ pc = "idle"
    /\ scan_result' = scan_library(media, sidecars, libfs)
    /\ start' = [media |-> media, sidecars |-> sidecars, libfs |-> libfs,
                 repeat |-> repeat]
    /\ IF is_clean(scan_result')
       THEN result' = "Ok" /\ pc' = "done"
       ELSE result' = "none" /\ pc' = "scan_missing"
    /\ UNCHANGED <<source, media, sidecars, libfs, dry_run, candidates, idx, answers,
                   unique_by_hash, duplicates_skipped, to_import, file_copies,
                   copied, copy_failures, tx, stats, repeat, faults, todo, choice,
                   accepted, edits>>
    /\ UNCHANGED toolVars

\* handle_missing_files up to conn.transaction(): the list and the R/S/I prompt
HandleMissingPrompt ==
    /\ pc = "scan_missing"
    /\ IF scan_result.missing_files = <<>>
       THEN /\ pc' = "scan_orphaned"
            /\ UNCHANGED <<tx, todo, choice, accepted, result>>
       ELSE \E answer \in MissingAnswers \cup {"read_failed"} :
              /\ choice' = answer
              /\ accepted' = {}
              /\ IF answer = "read_failed"
                 THEN /\ result' = "Io"
                      /\ pc' = "done"
                      /\ UNCHANGED <<tx, todo>>
                 ELSE IF answer \in {"R", "S"}
                 THEN /\ tx' = [open |-> TRUE, media |-> media, sidecars |-> sidecars]
                      /\ todo' = scan_result.missing_files
                      /\ pc' = "scan_missing_loop"
                      /\ UNCHANGED result
                 ELSE /\ pc' = "scan_orphaned"
                      /\ UNCHANGED <<tx, todo, result>>
    /\ UNCHANGED <<source, media, sidecars, libfs, dry_run, candidates, idx, answers,
                   unique_by_hash, duplicates_skipped, to_import, file_copies,
                   copied, copy_failures, stats, start, repeat, faults, scan_result,
                   edits>>
    /\ UNCHANGED toolVars

\* variant: the selective removal deletes the row whatever the answer
RemovalApproved_always(ch, answer) == TRUE

\* whether the row of a missing file is deleted: R, or y under S
RemovalApproved(ch, answer) == ch = "R" \/ (ch = "S" /\ answer = "y")

\* one pass of "for f in missing" inside the transaction
HandleMissingStep ==
    /\ pc = "scan_missing_loop"
    /\ todo # <<>>
    /\ \E answer \in {"y", "N", "read_failed"}, executed \in BOOLEAN :
         /\ (choice = "R" => answer = "y")
         /\ IF answer = "read_failed"
            THEN executed /\ ScanError("Io")
            ELSE IF RemovalApproved(choice, answer) /\ ~executed
            THEN ScanError("Database")
            ELSE /\ executed
                 /\ IF RemovalApproved(choice, answer)
                    THEN LET r == DeleteMedia(tx.media, tx.sidecars, {Head(todo).id})
                         IN  tx' = [open |-> TRUE, media |-> r.media,
                                    sidecars |-> r.sidecars]
                    ELSE UNCHANGED tx
                 /\ accepted' = IF choice = "R" \/ answer = "y"
                                THEN accepted \cup {Head(todo)} ELSE accepted
                 /\ todo' = Tail(todo)
                 /\ UNCHANGED <<media, sidecars, repeat, choice, result, pc>>
    /\ UNCHANGED <<source, libfs, dry_run, candidates, idx, answers, unique_by_hash,
                   duplicates_skipped, to_import, file_copies, copied, copy_failures,
                   stats, start, faults, scan_result, edits>>
    /\ UNCHANGED toolVars

\* handle_orphaned_sidecars up to conn.transaction(): the Y/n prompt
HandleOrphanedPrompt ==
    /\ pc = "scan_orphaned"
    /\ IF scan_result.orphaned_sidecars = <<>>
       THEN /\ pc' = "scan_modified"
            /\ UNCHANGED <<tx, todo, choice, accepted, result>>
       ELSE \E answer \in YesNo \cup {"read_failed"} :
              /\ choice' = answer
              /\ accepted' = {}
              /\ IF answer = "read_failed"
                 THEN /\ result' = "Io"
                      /\ pc' = "done"
                      /\ UNCHANGED <<tx, todo>>
                 ELSE IF answer # "n"
                 THEN /\ tx' = [open |-> TRUE, media |-> media, sidecars |-> sidecars]
                      /\ todo' = scan_result.orphaned_sidecars
                      /\ pc' = "scan_orphaned_loop"
                      /\ UNCHANGED result
                 ELSE /\ pc' = "scan_modified"
                      /\ UNCHANGED <<tx, todo, result>>
    /\ UNCHANGED <<source, media, sidecars, libfs, dry_run, candidates, idx, answers,
                   unique_by_hash, duplicates_skipped, to_import, file_copies,
                   copied, copy_failures, stats, start, repeat, faults, scan_result,
                   edits>>
    /\ UNCHANGED toolVars

\* one pass of "for f in orphaned" inside the transaction
HandleOrphanedStep ==
    /\ pc = "scan_orphaned_loop"
    /\ todo # <<>>
    /\ \E executed \in BOOLEAN :
         IF ~executed
         THEN ScanError("Database")
         ELSE /\ tx' = [tx EXCEPT !.sidecars = DeleteSidecar(@, Head(todo))]
              /\ accepted' = accepted \cup {Head(todo)}
              /\ todo' = Tail(todo)
              /\ UNCHANGED <<media, sidecars, repeat, choice, result, pc>>
    /\ UNCHANGED <<source, libfs, dry_run, candidates, idx, answers, unique_by_hash,
                   duplicates_skipped, to_import, file_copies, copied, copy_failures,
                   stats, start, faults, scan_result, edits>>
    /\ UNCHANGED toolVars

\* handle_modified_sidecars up to conn.transaction(): the Y/n prompt
HandleModifiedPrompt ==
    /\ pc = "scan_modified"
    /\ IF scan_result.modified_sidecars = <<>>
       THEN /\ pc' = "scan_new"
            /\ UNCHANGED <<tx, todo, choice, accepted, result>>
       ELSE \E answer \in YesNo \cup {"read_failed"} :
              /\ choice' = answer
              /\ accepted' = {}
              /\ IF answer = "read_failed"
                 THEN /\ result' = "Io"
                      /\ pc' = "done"
                      /\ UNCHANGED <<tx, todo>>
                 ELSE IF answer # "n"
                 THEN /\ tx' = [open |-> TRUE, media |-> media, sidecars |-> sidecars]
                      /\ todo' = scan_result.modified_sidecars
                      /\ pc' = "scan_modified_loop"
                      /\ UNCHANGED result
                 ELSE /\ pc' = "scan_new"
                      /\ UNCHANGED <<tx, todo, result>>
    /\ UNCHANGED <<source, media, sidecars, libfs, dry_run, candidates, idx, answers,
                   unique_by_hash, duplicates_skipped, to_import, file_copies,
                   copied, copy_failures, stats, start, repeat, faults, scan_result,
                   edits>>
    /\ UNCHANGED toolVars

\* one pass of "for f in modified" inside the transaction
HandleModifiedStep ==
    /\ pc = "scan_modified_loop"
    /\ todo # <<>>
    /\ \E executed \in BOOLEAN :
         IF ~executed
         THEN ScanError("Database")
         ELSE /\ tx' = [tx EXCEPT !.sidecars = UpdateSidecar(@, Head(todo))]
              /\ accepted' = accepted \cup {Head(todo)}
              /\ todo' = Tail(todo)
              /\ UNCHANGED <<media, sidecars, repeat, choice, result, pc>>
    /\ UNCHANGED <<source, libfs, dry_run, candidates, idx, answers, unique_by_hash,
                   duplicates_skipped, to_import, file_copies, copied, copy_failures,
                   stats, start, faults, scan_result, edits>>
    /\ UNCHANGED toolVars

\* the handler that follows a handler in handle_scan_results
NextHandler(p) ==
    IF p = "scan_missing_loop" THEN "scan_orphaned"
    ELSE IF p = "scan_orphaned_loop" THEN "scan_modified"
    ELSE "scan_new"

\* tx.commit()? at the end of a handler's loop
ScanCommit ==
    /\ pc \in {"scan_missing_loop", "scan_orphaned_loop", "scan_modified_loop"}
    /\ todo = <<>>
    /\ \E committed \in BOOLEAN :
         /\ IF committed
            THEN /\ media' = tx.media
                 /\ sidecars' = tx.sidecars
                 /\ repeat' = (repeat /\ tx.media = media /\ tx.sidecars = sidecars)
            ELSE UNCHANGED <<media, sidecars, repeat>>
         /\ IF committed
            THEN pc' = NextHandler(pc) /\ UNCHANGED result
            ELSE pc' = "done" /\ result' = "Database"
    /\ tx' = NoTx
    /\ UNCHANGED <<source, libfs, dry_run, candidates, idx, answers, unique_by_hash,
                   duplicates_skipped, to_import, file_copies, copied, copy_failures,
                   stats, start, faults, scanVars, edits>>
    /\ UNCHANGED toolVars

\* handle_new_files: the untracked files are listed with the advice to import
\* the library into itself; handle_scan_results returns Ok
HandleNewFiles ==
    /\ pc = "scan_new"
    /\ result' = "Ok"
    /\ pc' = "done"
    /\ UNCHANGED <<source, media, sidecars, libfs, dry_run, candidates, idx, answers,
                   unique_by_hash, duplicates_skipped, to_import, file_copies,
                   copied, copy_failures, tx, stats, start, repeat, faults, scanVars,
                   edits>>
    /\ UNCHANGED toolVars


Next ==
    \/ ImportStart
    \/ DedupStep
    \/ DryRunReturn
    \/ PlanStep
    \/ CopyStep
    \/ CopyFailedReturn
    \/ TxStep
    \/ CommitStep
    \/ Return
    \/ Interrupt
    \/ DeleteFile
    \/ ScanResolve

Spec == Init /\ [][Next]_vars

\* imports (also of the library into itself), scans handled step by step,
\* and files added or deleted by hand between the commands
ScanNext ==
    \/ ImportStart
    \/ ImportLibraryStart
    \/ DedupStep
    \/ DryRunReturn
    \/ PlanStep
    \/ CopyStep
    \/ CopyFailedReturn
    \/ TxStep
    \/ CommitStep
    \/ Return
    \/ Interrupt
    \/ DeleteFile
    \/ AddFile
    \/ ScanStart
    \/ HandleMissingPrompt
    \/ HandleMissingStep
    \/ HandleOrphanedPrompt
    \/ HandleOrphanedStep
    \/ HandleModifiedPrompt
    \/ HandleModifiedStep
    \/ ScanCommit
    \/ HandleNewFiles

ScanSpec == ScanInit /\ [][ScanNext]_vars
\* ----------------------------------------------------- the search command
\* a text is the sequence of its characters
DigitChars == <<"0", "1", "2", "3", "4", "5", "6", "7", "8", "9">>

IsDigit(c) == \E d \in 1..10 : DigitChars[d] = c

DigitValue(c) == (CHOOSE d \in 1..10 : DigitChars[d] = c) - 1

\* the decimal text of a natural number
RECURSIVE DecimalText(_)
DecimalText(n) ==
    IF n < 10 THEN <<DigitChars[n + 1]>>
    ELSE DecimalText(n \div 10) \o <<DigitChars[(n % 10) + 1]>>

\* str::trim
RECURSIVE Trim(_)
Trim(s) ==
    IF s = <<>> THEN s
    ELSE IF Head(s) = " " THEN Trim(Tail(s))
    ELSE IF s[Len(s)] = " " THEN Trim(SubSeq(s, 1, Len(s) - 1))
    ELSE s

\* str::to_uppercase on the letters of the units
UpperChar(c) ==
    IF c = "k" THEN "K"
    ELSE IF c = "m" THEN "M"
    ELSE IF c = "g" THEN "G"
    ELSE IF c = "b" THEN "B"
    ELSE c

to_uppercase(s) == [i \in 1..Len(s) |-> UpperChar(s[i])]

\* str::strip_suffix: None, or the text before the suffix
strip_suffix(s, suffix) ==
    IF /\ Len(s) >= Len(suffix)
       /\ SubSeq(s, Len(s) - Len(suffix) + 1, Len(s)) = suffix
    THEN Some(SubSeq(s, 1, Len(s) - Len(suffix)))
    ELSE None

\* str::strip_prefix with a one-character prefix
strip_prefix(s, c) ==
    IF s # <<>> /\ Head(s) = c THEN Some(Tail(s)) ELSE None

\* the value of a text of digits
RECURSIVE DigitsValue(_)
DigitsValue(s) ==
    IF s = <<>> THEN 0
    ELSE DigitsValue(SubSeq(s, 1, Len(s) - 1)) * 10 + DigitValue(s[Len(s)])

\* str::parse::<i64>().ok(): an optional sign and at least one digit
ParseI64(s) ==
    LET signed == s # <<>> /\ Head(s) \in {"+", "-"}
        digits == IF signed THEN Tail(s) ELSE s
    IN  IF digits = <<>> \/ \E i \in 1..Len(digits) : ~IsDigit(digits[i])
        THEN None
        ELSE IF signed /\ Head(s) = "-"
        THEN Some(0 - DigitsValue(digits))
        ELSE Some(DigitsValue(digits))

\* parse_size_value: "10MB" or "1GB" into bytes
parse_size_value(text) ==
    LET s  == to_uppercase(Trim(text))
        gb == strip_suffix(s, <<"G", "B">>)
        mb == strip_suffix(s, <<"M", "B">>)
        kb == strip_suffix(s, <<"K", "B">>)
        b  == strip_suffix(s, <<"B">>)
        num_part   == IF gb.some THEN gb.value
                      ELSE IF mb.some THEN mb.value
                      ELSE IF kb.some THEN kb.value
                      ELSE IF b.some THEN b.value
                      ELSE s
        multiplier == IF gb.some THEN 1073741824
                      ELSE IF mb.some THEN 1048576
                      ELSE IF kb.some THEN 1024
                      ELSE 1
        n == ParseI64(Trim(num_part))
    IN  IF n.some THEN Some(n.value * multiplier) ELSE None

\* the places of ".." in a text
DotDots(s) == {i \in 1..(Len(s) - 1) : s[i] = "." /\ s[i + 1] = "."}

\* the parts of str::split("..")
RECURSIVE SplitDotDot(_)
SplitDotDot(s) ==
    IF DotDots(s) = {} THEN <<s>>
    ELSE LET i == CHOOSE k \in DotDots(s) : \A j \in DotDots(s) : k <= j
         IN  <<SubSeq(s, 1, i - 1)>> \o SplitDotDot(SubSeq(s, i + 2, Len(s)))

\* SearchQuery::parse_size_filter: (min_size, max_size)
parse_size_filter(text) ==
    LET s     == Trim(text)
        parts == SplitDotDot(s)
        gt    == strip_prefix(s, ">")
        lt    == strip_prefix(s, "<")
        size  == parse_size_value(s)
    IN  IF DotDots(s) # {} /\ Len(parts) = 2
        THEN [min_size |-> parse_size_value(parts[1]),
              max_size |-> parse_size_value(parts[2])]
        ELSE IF gt.some
        THEN [min_size |-> parse_size_value(gt.value), max_size |-> None]
        ELSE IF lt.some
        THEN [min_size |-> None, max_size |-> parse_size_value(lt.value)]
        ELSE [min_size |-> size, max_size |-> size]

\* the size conditions search adds to the WHERE clause
SizeMatches(q, file_size) ==
    /\ q.min_size.some => file_size >= q.min_size.value
    /\ q.max_size.some => file_size <= q.max_size.value

\* the numbers, units and sizes the --size arguments are written with
SizeNumbers == {1, MaxSizeN}

SizeUnits == {<<>>, <<"B">>, <<"K", "B">>, <<"k", "b">>, <<"M", "B">>}

SizeTexts == {DecimalText(n) \o u : n \in SizeNumbers, u \in SizeUnits}

SizeFilters ==
    {<<">">> \o t : t \in SizeTexts}
    \cup {<<"<">> \o t : t \in SizeTexts}
    \cup SizeTexts
    \cup {a \o <<".", ".">> \o b : a \in SizeTexts, b \in SizeTexts}

\* the file sizes at and next to the sizes the arguments name
FileSizes ==
    UNION {{parse_size_value(t).value + d : d \in {-1, 0, 1}} : t \in SizeTexts}

\* a search with a --size argument over an index of at most MaxRows rows
SearchInit ==
    /\ source = <<>>
    /\ InitLibrary
    /\ size_str \in SizeFilters
    /\ file_sizes \in {S \in SUBSET FileSizes : Cardinality(S) \in 1..MaxRows}
    /\ query = NoQuery
    /\ found = NotRun
    /\ NoDates
    /\ NoBackups
    /\ NoRemote
    /\ NoMore

\* main: the --size argument fills min_size and max_size of the query
ParseSizeFilter ==
    /\ ~query.parsed
    /\ size_str # <<>>
    /\ LET r == parse_size_filter(size_str)
       IN  query' = [parsed |-> TRUE, min_size |-> r.min_size,
                     max_size |-> r.max_size]
    /\ UNCHANGED <<size_str, file_sizes, found>>
    /\ UNCHANGED <<libVars, dateVars, backupVars, pushVars, moreVars>>

\* search: the rows the statement selects
Search ==
    /\ query.parsed
    /\ found = NotRun
    /\ found' = {f \in file_sizes : SizeMatches(query, f)}
    /\ UNCHANGED <<size_str, file_sizes, query>>
    /\ UNCHANGED <<libVars, dateVars, backupVars, pushVars, moreVars>>

SearchNext ==
    \/ ParseSizeFilter
    \/ Search

SearchSpec == SearchInit /\ [][SearchNext]_vars

\* ------------------------------------------------------ stored timestamps
\* an OffsetDateTime: an instant, counted in hours and hundredths of a second
\* from 2024-01-10 22:00:00 UTC, and the UTC offset it is shown with
Instants == [hour : 0..MaxHour, sub : {0, 5, 25, 50}]

UtcOffsets == {0 - MaxOffset, 0, MaxOffset}

OffsetDateTimes == [instant : Instants, offset : UtcOffsets]

\* a number in n digits, with leading zeros
RECURSIVE Padded(_, _)
Padded(v, n) ==
    IF n = 0 THEN <<>>
    ELSE Padded(v \div 10, n - 1) \o <<DigitChars[(v % 10) + 1]>>

\* [subsecond]: the digits of the fraction without trailing zeros, at least one
Subsecond(sub) ==
    IF sub % 10 = 0 THEN Padded(sub \div 10, 1) ELSE Padded(sub, 2)

\* OffsetDateTime::format(DB_DATE_FORMAT): the date and the time of day are
\* those of the instant moved by the offset, and the offset follows
FormatDbDate(t) ==
    LET local == 22 + t.instant.hour + t.offset
        sign  == IF t.offset < 0 THEN "-" ELSE "+"
        off   == IF t.offset < 0 THEN 0 - t.offset ELSE t.offset
    IN  Padded(2024, 4) \o <<":">> \o Padded(1, 2) \o <<":">>
          \o Padded(10 + (local \div 24), 2) \o <<" ">>
          \o Padded(local % 24, 2) \o <<":">> \o Padded(0, 2) \o <<":">>
          \o Padded(0, 2) \o <<".">> \o Subsecond(t.instant.sub)
          \o <<sign>> \o Padded(off, 2) \o <<":">> \o Padded(0, 2)

\* the byte of a character of a stored timestamp
CharByte(c) ==
    IF c = " " THEN 32
    ELSE IF c = "+" THEN 43
    ELSE IF c = "-" THEN 45
    ELSE IF c = "." THEN 46
    ELSE IF c = ":" THEN 58
    ELSE 48 + DigitValue(c)

\* the order of String and of TEXT columns: byte by byte, a prefix first
RECURSIVE TextLess(_, _)
TextLess(a, b) ==
    IF b = <<>> THEN FALSE
    ELSE IF a = <<>> THEN TRUE
    ELSE IF Head(a) # Head(b) THEN CharByte(Head(a)) < CharByte(Head(b))
    ELSE TextLess(Tail(a), Tail(b))

\* two timestamps, not yet written
DateInit ==
    /\ source = <<>>
    /\ InitLibrary
    /\ NoSearch
    /\ stamps \in OffsetDateTimes \X OffsetDateTimes
    /\ stored = <<>>
    /\ later = "unset"
    /\ NoBackups
    /\ NoRemote
    /\ NoMore

\* import, scan, backup and push write their timestamps with DB_DATE_FORMAT
StoreStamps ==
    /\ stamps # <<>>
    /\ stored = <<>>
    /\ stored' = <<FormatDbDate(stamps[1]), FormatDbDate(stamps[2])>>
    /\ UNCHANGED <<stamps, later>>
    /\ UNCHANGED <<libVars, searchVars, backupVars, pushVars, moreVars>>

\* push (local against remote modified_at) and files_changed_since_backup
\* (imported_at against backed_up_at) compare the stored texts
CompareStamps ==
    /\ stored # <<>>
    /\ later = "unset"
    /\ later' = IF TextLess(stored[2], stored[1]) THEN "first"
                ELSE IF TextLess(stored[1], stored[2]) THEN "second"
                ELSE "same"
    /\ UNCHANGED <<stamps, stored>>
    /\ UNCHANGED <<libVars, searchVars, backupVars, pushVars, moreVars>>

DateNext ==
    \/ StoreStamps
    \/ CompareStamps

DateSpec == DateInit /\ [][DateNext]_vars

\* ----------------------------------------------------- the backup command
\* INSERT INTO backup_history (...) VALUES (..., 'running')
RunningRecord(id) ==
    [id |-> id, status |-> "running", completed_at |-> FALSE, files_copied |-> 0]

\* UPDATE backup_history SET status = 'failed' WHERE id = ?
MarkFailed(rows, id) ==
    {IF r.id = id THEN [r EXCEPT !.status = "failed"] ELSE r : r \in rows}

\* UPDATE backup_history SET completed_at = ?, files_copied = ?,
\* bytes_copied = ?, status = 'completed' WHERE id = ?
MarkCompleted(rows, id, files_copied) ==
    {IF r.id = id
     THEN [r EXCEPT !.status = "completed", !.completed_at = TRUE,
                    !.files_copied = files_copied]
     ELSE r : r \in rows}

\* INSERT OR REPLACE INTO backup_state ... SELECT id, ?, ? FROM media
ReplaceBackupState(mrows, id) ==
    {[media_id |-> m.id, last_backup_id |-> id] : m \in mrows}

\* a library with one imported file
BackedUpPath == [folder |-> "images", date |-> 1, name |-> [stem |-> "a", ext |-> "jpg"]]

BackupFiles == [p \in LibPaths |-> IF p = BackedUpPath THEN 1 ELSE NoFile]

BackupMedia == {MediaRow(1, LibraryCandidate(BackupFiles, BackedUpPath))}

\* a library, empty or with one file, that was never backed up
BackupInit ==
    /\ source = <<>>
    /\ \/ media = {} /\ libfs = [p \in LibPaths |-> NoFile]
       \/ media = BackupMedia /\ libfs = BackupFiles
    /\ sidecars = {}
    /\ InitIdle
    /\ NoSearch
    /\ NoDates
    /\ NoBackups
    /\ NoRemote
    /\ NoMore

\* backup(lib, target_dir, dry_run) up to the rsync command: the check for
\* rsync, the target directory, and the history record of a real run
BackupStart ==
    /\ backup_pc = "idle"
    /\ Cardinality(backup_history) < MaxBackups
    /\ \E dry \in BOOLEAN, outcome \in {"no_rsync", "mkdir_failed", "insert_failed", "ok"} :
         LET id == NextRowId(backup_history)
         IN  IF outcome = "ok"
             THEN /\ backup_history' = IF dry THEN backup_history
                                        ELSE backup_history \cup {RunningRecord(id)}
                  /\ backup_call' = [dry_run |-> dry,
                                     backup_id |-> IF dry THEN 0 ELSE id,
                                     result |-> "none", before |-> backup_history]
                  /\ backup_pc' = "rsync"
             ELSE /\ outcome = "insert_failed" => ~dry
                  /\ backup_call' = [dry_run |-> dry, backup_id |-> 0,
                                     result |-> IF outcome = "no_rsync" THEN "Rsync"
                                                ELSE IF outcome = "mkdir_failed" THEN "Io"
                                                ELSE "Database",
                                     before |-> backup_history]
                  /\ backup_pc' = "returned"
                  /\ UNCHANGED backup_history
    /\ UNCHANGED backup_state
    /\ UNCHANGED <<libVars, searchVars, dateVars, pushVars, moreVars>>

\* cmd.output()? and the branch of a failed rsync
BackupRsync ==
    /\ backup_pc = "rsync"
    /\ \E outcome \in {"spawn_failed", "exit_failure", "success"} :
         IF outcome = "spawn_failed"
         THEN /\ backup_call' = [backup_call EXCEPT !.result = "Io"]
              /\ backup_pc' = "returned"
              /\ UNCHANGED backup_history
         ELSE IF outcome = "exit_failure"
         THEN \E updated \in BOOLEAN :
                /\ updated => ~backup_call.dry_run
                /\ backup_history' =
                       IF updated
                       THEN MarkFailed(backup_history, backup_call.backup_id)
                       ELSE backup_history
                /\ backup_call' =
                       [backup_call EXCEPT
                           !.result = IF updated \/ backup_call.dry_run
                                      THEN "Rsync" ELSE "Database"]
                /\ backup_pc' = "returned"
         ELSE /\ backup_pc' = "finish"
              /\ UNCHANGED <<backup_history, backup_call>>
    /\ UNCHANGED backup_state
    /\ UNCHANGED <<libVars, searchVars, dateVars, pushVars, moreVars>>

\* after a successful rsync: the record is completed and backup_state is
\* replaced for all media; either statement can fail
BackupFinish ==
    /\ backup_pc = "finish"
    /\ IF backup_call.dry_run
       THEN /\ backup_call' = [backup_call EXCEPT !.result = "Ok"]
            /\ UNCHANGED <<backup_history, backup_state>>
       ELSE \E files_copied \in 0..MaxCopied,
               outcome \in {"update_failed", "state_failed", "ok"} :
              /\ backup_history' =
                     IF outcome = "update_failed" THEN backup_history
                     ELSE MarkCompleted(backup_history, backup_call.backup_id,
                                        files_copied)
              /\ backup_state' =
                     IF outcome = "ok"
                     THEN ReplaceBackupState(media, backup_call.backup_id)
                     ELSE backup_state
              /\ backup_call' = [backup_call EXCEPT
                                    !.result = IF outcome = "ok" THEN "Ok"
                                               ELSE "Database"]
    /\ backup_pc' = "returned"
    /\ UNCHANGED <<libVars, searchVars, dateVars, pushVars, moreVars>>

\* the command has returned; the process exits
BackupReturn ==
    /\ backup_pc = "returned"
    /\ backup_pc' = "idle"
    /\ backup_call' = NoCall
    /\ UNCHANGED <<backup_history, backup_state>>
    /\ UNCHANGED <<libVars, searchVars, dateVars, pushVars, moreVars>>

BackupNext ==
    \/ BackupStart
    \/ BackupRsync
    \/ BackupFinish
    \/ BackupReturn

BackupSpec == BackupInit /\ [][BackupNext]_vars

\* ------------------------------------------------------- the push command
\* get_media_map: hash -> MediaInfo
get_media_map(mrows) ==
    [h \in {m.hash : m \in mrows} |-> CHOOSE m \in mrows : m.hash = h]

\* get_sidecar_map: media hash -> (sidecar filename -> SidecarInfo)
get_sidecar_map(mrows, srows) ==
    LET joined == Joined(mrows, srows)
        of(h)  == {sc \in joined : OwnerOf(mrows, sc).hash = h}
    IN  [h \in {OwnerOf(mrows, sc).hash : sc \in joined} |->
            [f \in {sc.filename : sc \in of(h)} |->
                CHOOSE sc \in of(h) : sc.filename = f]]

\* the local media whose hash the remote index does not hold
PushNewMedia(local_media, remote_media_map) ==
    {local_media[h] : h \in DOMAIN local_media \ DOMAIN remote_media_map}

\* the local sidecars of the media both indexes hold, with the remote
\* sidecar of the same name where there is one
SharedSidecars(local_media, remote_media_map, local_sidecars, remote_sidecar_map) ==
    UNION {{[hash |-> h, local_sc |-> local_sidecars[h][f],
             remote_sc |-> IF h \in DOMAIN remote_sidecar_map
                              /\ f \in DOMAIN remote_sidecar_map[h]
                           THEN Some(remote_sidecar_map[h][f]) ELSE None] :
               f \in DOMAIN local_sidecars[h]} :
           h \in (DOMAIN local_media \cap DOMAIN remote_media_map)
                     \cap DOMAIN local_sidecars}

\* local_sc.modified_at > remote_sc.modified_at
LocalIsNewer(local_modified_at, remote_modified_at) ==
    local_modified_at > remote_modified_at

\* the sidecars to push: missing on the remote, or newer than the remote's
PushSidecarUpdates(shared) ==
    {[hash |-> e.hash, sc |-> e.local_sc] :
        e \in {x \in shared :
                 \/ ~x.remote_sc.some
                 \/ LocalIsNewer(x.local_sc.modified_at,
                                 x.remote_sc.value.modified_at)}}

\* the sidecars whose remote text of modified_at is the greater one
PushConflicts(shared, local_media) ==
    {[media_hash |-> e.hash, sidecar_filename |-> e.local_sc.filename,
      local_path |-> DestPath(local_media[e.hash].relpath, e.local_sc.filename)] :
        e \in {x \in shared :
                 /\ x.remote_sc.some
                 /\ x.local_sc.modified_at < x.remote_sc.value.modified_at}}

\* the orders a loop over a HashMap can visit a set in
Orders(S) ==
    {s \in [1..Cardinality(S) -> S] : \A i, j \in DOMAIN s : s[i] = s[j] => i = j}

\* push_file(local_path, remote, relpath): the file and where it goes
PushCall(local_path, relpath, counted) ==
    [from |-> local_path, to |-> DestPath(relpath, local_path.name),
     counted |-> counted]

\* the push_file calls for the new media, each followed by its sidecars
RECURSIVE NewMediaCalls(_, _, _)
NewMediaCalls(new_media, local_sidecars, fs) ==
    IF new_media = <<>> THEN <<>>
    ELSE LET m   == Head(new_media)
             scs == IF m.hash \in DOMAIN local_sidecars
                    THEN {DestPath(m.relpath, f) : f \in DOMAIN local_sidecars[m.hash]}
                    ELSE {}
             ord == CHOOSE o \in Orders({p \in scs : fs[p] # NoFile}) : TRUE
         IN  <<PushCall(MediaPath(m), m.relpath, TRUE)>>
               \o [i \in DOMAIN ord |-> PushCall(ord[i], m.relpath, TRUE)]
               \o NewMediaCalls(Tail(new_media), local_sidecars, fs)

\* the push_file calls for the sidecar updates
RECURSIVE SidecarUpdateCalls(_, _, _)
SidecarUpdateCalls(updates, local_media, fs) ==
    IF updates = <<>> THEN <<>>
    ELSE LET u  == Head(updates)
             m  == local_media[u.hash]
             p  == DestPath(m.relpath, u.sc.filename)
         IN  (IF fs[p] # NoFile THEN <<PushCall(p, m.relpath, TRUE)>> ELSE <<>>)
               \o SidecarUpdateCalls(Tail(updates), local_media, fs)

\* the push_file calls for the conflicts resolved as UseLocal
RECURSIVE ConflictCalls(_, _, _)
ConflictCalls(conflicts, resolutions, local_media) ==
    IF conflicts = <<>> THEN <<>>
    ELSE LET c == Head(conflicts)
         IN  (IF /\ c.sidecar_filename \in DOMAIN resolutions
                 /\ resolutions[c.sidecar_filename] = "UseLocal"
              THEN <<PushCall(c.local_path, local_media[c.media_hash].relpath,
                              FALSE)>>
              ELSE <<>>)
               \o ConflictCalls(Tail(conflicts), resolutions, local_media)

\* the libraries of the push scenarios: for every media name, the content of
\* the file (0: no such media), the content of its sidecar (0: none) and the
\* place of the sidecar's modified_at text in the order of the texts
PushItems ==
    {i \in [content : 0..MaxContent, sidecar : 0..MaxContent,
            modified_at : 0..MaxTime] :
        /\ i.content = 0 => i.sidecar = 0
        /\ i.sidecar = 0 => i.modified_at = 0}

PushShapes ==
    {sh \in [MediaNames -> PushItems] :
        \A m, n \in MediaNames :
            (m # n /\ sh[m].content # 0) => sh[m].content # sh[n].content}

ShapeMediaPath(name) ==
    [folder |-> folder_name(detect_media_type(name)), date |-> 1, name |-> name]

ShapeSidecarPath(name) ==
    [ShapeMediaPath(name) EXCEPT !.name = [stem |-> name.stem, ext |-> "xmp"]]

ShapeFiles(sh) ==
    [p \in LibPaths |->
        IF \E n \in MediaNames : p = ShapeMediaPath(n)
        THEN sh[CHOOSE n \in MediaNames : p = ShapeMediaPath(n)].content
        ELSE IF \E n \in MediaNames : p = ShapeSidecarPath(n)
        THEN sh[CHOOSE n \in MediaNames : p = ShapeSidecarPath(n)].sidecar
        ELSE NoFile]

ShapeIds == CHOOSE f \in [MediaNames -> 1..Cardinality(MediaNames)] :
                \A m, n \in MediaNames : f[m] = f[n] => m = n

ShapeMedia(sh) ==
    {MediaRow(ShapeIds[n], LibraryCandidate(ShapeFiles(sh), ShapeMediaPath(n))) :
        n \in {m \in MediaNames : sh[m].content # 0}}

ShapeSidecars(sh) ==
    {[media_id |-> ShapeIds[n], filename |-> ShapeSidecarPath(n).name,
      hash |-> hash_file(sh[n].sidecar), modified_at |-> sh[n].modified_at] :
        n \in {m \in MediaNames : sh[m].sidecar # 0}}

\* a local and a remote library, each with its imported files
PushInit ==
    /\ source = <<>>
    /\ \E l \in PushShapes, r \in PushShapes :
         /\ media = ShapeMedia(l)
         /\ sidecars = ShapeSidecars(l)
         /\ libfs = ShapeFiles(l)
         /\ remote_media = ShapeMedia(r)
         /\ remote_sidecars = ShapeSidecars(r)
         /\ remotefs = ShapeFiles(r)
    /\ InitIdle
    /\ NoSearch
    /\ NoDates
    /\ NoBackups
    /\ push_pc = "idle"
    /\ push_call = NoPush
    /\ push_todo = <<>>
    /\ NoMore

\* push(lib, remote_str, dry_run) up to the prompts: the remote is checked,
\* the two indexes are compared and the summary is printed
PushStart ==
    /\ push_pc = "idle"
    /\ \E dry \in BOOLEAN, ssh \in BOOLEAN, valid \in BOOLEAN :
         LET local_media       == get_media_map(media)
             remote_media_map  == get_media_map(remote_media)
             local_sidecars    == get_sidecar_map(media, sidecars)
             remote_sidecar_map == get_sidecar_map(remote_media, remote_sidecars)
             shared == SharedSidecars(local_media, remote_media_map,
                                      local_sidecars, remote_sidecar_map)
             call   == [NoPush EXCEPT !.dry_run = dry, !.is_ssh = ssh,
                                      !.before = remotefs]
         IN  IF ~valid
             THEN /\ push_call' = [call EXCEPT !.result = "Library"]
                  /\ push_todo' = <<>>
                  /\ push_pc' = "returned"
             ELSE \E new_media \in Orders(PushNewMedia(local_media, remote_media_map)),
                     updates \in Orders(PushSidecarUpdates(shared)),
                     conflicts \in Orders(PushConflicts(shared, local_media)) :
                    IF (new_media = <<>> /\ updates = <<>> /\ conflicts = <<>>) \/ dry
                    THEN /\ push_call' =
                                [call EXCEPT
                                    !.result = "Ok",
                                    !.conflicts = conflicts,
                                    !.in_sync = (/\ new_media = <<>>
                                                 /\ updates = <<>>
                                                 /\ conflicts = <<>>)]
                         /\ push_todo' = <<>>
                         /\ push_pc' = "returned"
                    ELSE /\ push_call' = [call EXCEPT !.conflicts = conflicts]
                         /\ push_todo' =
                                NewMediaCalls(new_media, local_sidecars, libfs)
                                  \o SidecarUpdateCalls(updates, local_media, libfs)
                         /\ push_pc' = "conflicts"
    /\ UNCHANGED <<remote_media, remote_sidecars, remotefs>>
    /\ UNCHANGED <<libVars, searchVars, dateVars, backupVars, moreVars>>

\* the answer that stands for a choice at the conflict prompt
Resolution(answer) ==
    IF answer \in {"L", "A"} THEN "UseLocal"
    ELSE IF answer = "R" THEN "UseRemote"
    ELSE "Skip"

\* the conflict prompts, one conflict at a time; after the last one the
\* pushes of the conflicts resolved as UseLocal follow the other pushes
PushResolve ==
    /\ push_pc = "conflicts"
    /\ IF push_call.next_conflict > Len(push_call.conflicts)
       THEN /\ push_todo' = push_todo \o ConflictCalls(push_call.conflicts,
                                                       push_call.resolutions,
                                                       get_media_map(media))
            /\ push_pc' = "push"
            /\ UNCHANGED push_call
       ELSE LET c == push_call.conflicts[push_call.next_conflict]
                resolve(res) ==
                    [f \in DOMAIN push_call.resolutions \cup {c.sidecar_filename} |->
                        IF f = c.sidecar_filename THEN res
                        ELSE push_call.resolutions[f]]
            IN  IF push_call.all_local \/ push_call.all_skip
                THEN /\ push_call' =
                            [push_call EXCEPT
                                !.resolutions = resolve(IF push_call.all_local
                                                        THEN "UseLocal" ELSE "Skip"),
                                !.answered = Append(@, IF push_call.all_local
                                                       THEN "UseLocal" ELSE "Skip"),
                                !.next_conflict = @ + 1]
                     /\ UNCHANGED <<push_pc, push_todo>>
                ELSE \E answer \in {"L", "R", "S", "A", "N", "read_failed"} :
                       IF answer = "read_failed"
                       THEN /\ push_call' = [push_call EXCEPT !.result = "Io"]
                            /\ push_todo' = <<>>
                            /\ push_pc' = "returned"
                       ELSE /\ push_call' =
                                   [push_call EXCEPT
                                       !.resolutions = resolve(Resolution(answer)),
                                       !.answered = Append(@, Resolution(answer)),
                                       !.all_local = (answer = "A"),
                                       !.all_skip = (answer = "N"),
                                       !.next_conflict = @ + 1]
                            /\ UNCHANGED <<push_pc, push_todo>>
    /\ UNCHANGED <<remote_media, remote_sidecars, remotefs>>
    /\ UNCHANGED <<libVars, searchVars, dateVars, backupVars, moreVars>>

\* the next push_file call: fs::copy to a mounted remote, rsync -av to an
\* SSH remote; a failed copy ends the push, a failed rsync is not counted
PushFileStep ==
    /\ push_pc = "push"
    /\ push_todo # <<>>
    /\ LET c == Head(push_todo)
       IN  IF libfs[c.from] = NoFile
           THEN /\ push_todo' = Tail(push_todo)
                /\ UNCHANGED <<remotefs, push_call, push_pc>>
           ELSE \E copied_ok \in BOOLEAN :
                  IF copied_ok
                  THEN /\ remotefs' = [remotefs EXCEPT ![c.to] = libfs[c.from]]
                       /\ push_call' =
                              [push_call EXCEPT
                                  !.pushed = IF c.counted THEN @ + 1 ELSE @]
                       /\ push_todo' = Tail(push_todo)
                       /\ UNCHANGED push_pc
                  ELSE IF push_call.is_ssh
                  THEN /\ push_todo' = Tail(push_todo)
                       /\ UNCHANGED <<remotefs, push_call, push_pc>>
                  ELSE /\ push_call' = [push_call EXCEPT !.result = "Io"]
                       /\ push_todo' = <<>>
                       /\ push_pc' = "returned"
                       /\ UNCHANGED remotefs
    /\ UNCHANGED <<remote_media, remote_sidecars>>
    /\ UNCHANGED <<libVars, searchVars, dateVars, backupVars, moreVars>>

\* after the last push_file: the push is recorded in the local history
PushRecord ==
    /\ push_pc = "push"
    /\ push_todo = <<>>
    /\ \E inserted \in BOOLEAN :
         IF inserted
         THEN /\ backup_history' = backup_history \cup
                     {[id |-> NextRowId(backup_history), status |-> "completed",
                       completed_at |-> TRUE, files_copied |-> push_call.pushed]}
              /\ push_call' = [push_call EXCEPT !.result = "Ok"]
         ELSE /\ push_call' = [push_call EXCEPT !.result = "Database"]
              /\ UNCHANGED backup_history
    /\ push_pc' = "returned"
    /\ UNCHANGED <<remote_media, remote_sidecars, remotefs, push_todo>>
    /\ UNCHANGED <<backup_state, backup_pc, backup_call>>
    /\ UNCHANGED <<libVars, searchVars, dateVars, moreVars>>

PushNext ==
    \/ PushStart
    \/ PushResolve
    \/ PushFileStep
    \/ PushRecord

PushSpec == PushInit /\ [][PushNext]_vars

\* the command has returned and the process exits; the operator may run
\* push again on the same two libraries
PushReturn ==
    /\ push_pc = "returned"
    /\ Cardinality(backup_history) < MaxBackups
    /\ push_pc' = "idle"
    /\ UNCHANGED <<push_call, push_todo, remote_media, remote_sidecars, remotefs>>
    /\ UNCHANGED <<libVars, searchVars, dateVars, backupVars, moreVars>>

PushAgainNext ==
    \/ PushStart
    \/ PushResolve
    \/ PushFileStep
    \/ PushRecord
    \/ PushReturn

\* a local and a remote library that hold images only
PushAgainInit ==
    /\ PushInit
    /\ \A m \in media \cup remote_media : m.media_type = "image"

PushAgainSpec == PushAgainInit /\ [][PushAgainNext]_vars

\* two media of one stem, a.jpg and a.mp4, held by both libraries, each with
\* its sidecar a.xmp edited on both sides
ConflictNames == {[stem |-> "a", ext |-> "jpg"], [stem |-> "a", ext |-> "mp4"]}

ConflictPaths == [folder : {"images", "videos"}, date : {1},
                  name : ConflictNames \cup {[stem |-> "a", ext |-> "xmp"]}]

\* the files of such a library; sc is the content of the two sidecars
ConflictFiles(sc) ==
    [p \in ConflictPaths |->
        IF p.name.ext = "xmp" THEN sc
        ELSE IF p.name.ext = "jpg" /\ p.folder = "images" THEN 1
        ELSE IF p.name.ext = "mp4" /\ p.folder = "videos" THEN 2
        ELSE NoFile]

ConflictMediaPath(name) ==
    [folder |-> folder_name(detect_media_type(name)), date |-> 1, name |-> name]

ConflictMedia(fs) ==
    {MediaRow(IF n.ext = "jpg" THEN 1 ELSE 2,
              LibraryCandidate(fs, ConflictMediaPath(n))) : n \in ConflictNames}

\* the sidecar rows; times gives each sidecar's place in the order of the
\* modified_at texts
ConflictSidecars(sc, times) ==
    {[media_id |-> IF n.ext = "jpg" THEN 1 ELSE 2,
      filename |-> [stem |-> "a", ext |-> "xmp"], hash |-> hash_file(sc),
      modified_at |-> times[n]] : n \in ConflictNames}

ConflictInit ==
    /\ source = <<>>
    /\ \E lt \in [ConflictNames -> 0..MaxTime], rt \in [ConflictNames -> 0..MaxTime] :
         /\ media = ConflictMedia(ConflictFiles(1))
         /\ sidecars = ConflictSidecars(1, lt)
         /\ libfs = ConflictFiles(1)
         /\ remote_media = ConflictMedia(ConflictFiles(2))
         /\ remote_sidecars = ConflictSidecars(2, rt)
         /\ remotefs = ConflictFiles(2)
    /\ InitIdle
    /\ NoSearch
    /\ NoDates
    /\ NoBackups
    /\ push_pc = "idle"
    /\ push_call = NoPush
    /\ push_todo = <<>>
    /\ NoMore

ConflictSpec == ConflictInit /\ [][PushNext]_vars

\* ------------------------------------------- Library::create and ::open
\* the directory has a library.db
HasDb(dir) == dir.kind = "dir" /\ dir.db.present

\* variant: create does not look for library.db
CreateFindsLibrary_never(dir) == FALSE

\* dir.exists() && dir.join(DB_FILE_NAME).exists()
CreateFindsLibrary(dir) == dir.kind # "missing" /\ HasDb(dir)

\* the directory after the first n of create's steps: create_dir_all(dir),
\* create_dir_all(images), create_dir_all(videos), Database::new
CreateSteps(dir, n) ==
    [kind   |-> IF n >= 1 THEN "dir" ELSE dir.kind,
     images |-> dir.images \/ n >= 2,
     videos |-> dir.videos \/ n >= 3,
     db     |-> IF n >= 4 THEN [present |-> TRUE, rows |-> {}] ELSE dir.db]

\* the directories create and open are called on: missing, a plain file, or
\* a directory with or without images/, videos/ and library.db
RootDirs ==
    {d \in [kind : {"missing", "file", "dir"}, images : BOOLEAN, videos : BOOLEAN,
            db : [present : BOOLEAN, rows : SUBSET (1..MaxIndexRows)]] :
        /\ d.kind # "dir" => (~d.images /\ ~d.videos /\ ~d.db.present)
        /\ ~d.db.present => d.db.rows = {}}

CreateInit ==
    /\ source = <<>>
    /\ InitLibrary
    /\ NoSearch
    /\ NoDates
    /\ NoBackups
    /\ NoRemote
    /\ NoWorkers
    /\ NoExtract
    /\ NoDateFilter
    /\ root_dir \in RootDirs
    /\ lib_call = NoLibCall

\* Library::create(dir); a step that fails returns the error at once
LibCreate ==
    /\ lib_call.op = "none"
    /\ IF CreateFindsLibrary(root_dir)
       THEN /\ lib_call' = [op |-> "create", result |-> "LibraryExists",
                            before |-> root_dir]
            /\ UNCHANGED root_dir
       ELSE IF root_dir.kind = "file"
       THEN /\ lib_call' = [op |-> "create", result |-> "Io", before |-> root_dir]
            /\ UNCHANGED root_dir
       ELSE \E done \in 0..4 :
              /\ done = 0 => root_dir.kind = "missing"
              /\ root_dir' = CreateSteps(root_dir, done)
              /\ lib_call' = [op |-> "create",
                              result |-> IF done = 4 THEN "Ok"
                                         ELSE IF done = 3 THEN "Database"
                                         ELSE "Io",
                              before |-> root_dir]
    /\ UNCHANGED <<libVars, oldToolVars, copyVars, extractVars, dateFilterVars>>

\* Library::open(dir)
LibOpen ==
    /\ lib_call.op = "none"
    /\ \E db_ok \in BOOLEAN :
         lib_call' = [op |-> "open",
                      result |-> IF root_dir.kind = "missing" THEN "LibraryNotFound"
                                 ELSE IF ~HasDb(root_dir) THEN "InvalidLibrary"
                                 ELSE IF db_ok THEN "Ok"
                                 ELSE "Database",
                      before |-> root_dir]
    /\ UNCHANGED root_dir
    /\ UNCHANGED <<libVars, oldToolVars, copyVars, extractVars, dateFilterVars>>

\* the command has returned; the process exits
LibReturn ==
    /\ lib_call.op # "none"
    /\ lib_call' = NoLibCall
    /\ UNCHANGED root_dir
    /\ UNCHANGED <<libVars, oldToolVars, copyVars, extractVars, dateFilterVars>>

CreateNext ==
    \/ LibCreate
    \/ LibOpen
    \/ LibReturn

CreateSpec == CreateInit /\ [][CreateNext]_vars

\* -------------------------------------------- import's per-file phase
\* a file whose extension is neither an image's nor a video's
UnknownNames == {[stem |-> "b", ext |-> "dat"]}

\* one directory of a source tree with files of every kind: what ffprobe
\* says of the file, and which read of it fails (metadata, hash, or none)
ProcessFile ==
    {f \in [name : MediaNames \cup UnknownNames, content : 1..MaxContent,
            created : CaptureTimes, sidecar : 0..MaxSidecar,
            ffprobe_video : BOOLEAN, fault : {"none", "metadata", "hash"}] :
        f.ffprobe_video => f.name \in UnknownNames}

ProcessTrees == UNION {[1..n -> ProcessFile] : n \in 1..MaxScanCand}

ProcessPaths == [folder : {"images", "videos"}, date : 1..MaxDay,
                 name : MediaNames \cup UnknownNames \cup SidecarNames]

\* media::detect_media_type: the extension first, then ffprobe
detect_file_type(file) ==
    IF detect_media_type(file.name) # "none" THEN detect_media_type(file.name)
    ELSE IF file.ffprobe_video THEN "video"
    ELSE "none"

\* process_source_file: Ok(None), Err, or Ok(Some(candidate))
ProcessOutcome(tree, i) ==
    IF detect_file_type(tree[i]) = "none" THEN "NotMedia"
    ELSE IF tree[i].fault # "none" THEN "Err"
    ELSE "Candidate"

\* variant: a file that could not be read still yields a candidate
KeepsCandidate_unread(outcome) == outcome # "NotMedia"

\* the filter_map over the files: Ok(Some(candidate)) is kept
KeepsCandidate(outcome) == outcome = "Candidate"

\* the candidates the scan of the source collects, in the order of the files
RECURSIVE CollectCandidates(_, _)
CollectCandidates(tree, i) ==
    IF i > Len(tree) THEN <<>>
    ELSE (IF KeepsCandidate(ProcessOutcome(tree, i))
          THEN <<[process_source_file(tree, i) EXCEPT
                      !.media_type = detect_file_type(tree[i])]>>
          ELSE <<>>) \o CollectCandidates(tree, i + 1)

\* an empty library and a source tree with files of every kind
ProcessInit ==
    /\ source \in ProcessTrees
    /\ media = {}
    /\ sidecars = {}
    /\ libfs = [p \in ProcessPaths |-> NoFile]
    /\ InitIdle
    /\ InitTools

\* import(source_dir, dry_run): phase 1 over such a tree
ImportScanStart ==
    /\ pc = "idle"
    /\ \E d \in BOOLEAN : dry_run' = d
    /\ candidates' = CollectCandidates(source, 1)
    /\ idx' = 1
    /\ answers' = <<>>
    /\ unique_by_hash' = EmptyMap
    /\ duplicates_skipped' = 0
    /\ start' = [media |-> media, sidecars |-> sidecars, libfs |-> libfs,
                 repeat |-> repeat]
    /\ pc' = "dedup"
    /\ UNCHANGED <<source, media, sidecars, libfs, to_import, file_copies,
                   copied, copy_failures, tx, result, stats, repeat, faults>>
    /\ UNCHANGED otherVars
    /\ UNCHANGED toolVars

ProcessNext ==
    \/ ImportScanStart
    \/ DedupStep
    \/ DryRunReturn
    \/ PlanStep
    \/ CopyStep
    \/ CopyFailedReturn
    \/ TxStep
    \/ CommitStep
    \/ Return

ProcessSpec == ProcessInit /\ [][ProcessNext]_vars

\* ------------------------------------------------ the copy workers
\* an empty library, a source tree, no command running
CopyInit == source \in ScanTrees /\ InitLibrary /\ InitTools

\* the planned copies no worker has taken yet
Untaken == (1..Len(file_copies)) \ DOMAIN workers

\* variant: the entry replaces the collection instead of joining it
AddFailure_replace(list, fc, cause) ==
    <<[source |-> fc.source, destination |-> fc.destination, error |-> cause]>>

\* CopyFailures::add under the lock: one entry pushed
AddFailure(list, fc, cause) ==
    Append(list, [source |-> fc.source, destination |-> fc.destination,
                  error |-> cause])

\* a worker takes a planned copy: create_dir_all, then fs::copy
WorkerCopy ==
    /\ pc = "copy"
    /\ \E i \in Untaken :
         \E outcome \in CopyOutcomes :
              IF outcome = "ok"
              THEN /\ libfs' = [libfs EXCEPT ![file_copies[i].destination] =
                                   CopiedContent(source, libfs, file_copies[i])]
                   /\ workers' = workers @@ (i :> [outcome |-> outcome,
                                                   finished |-> TRUE])
                   /\ copied' = copied \cup {i}
              ELSE /\ workers' = workers @@ (i :> [outcome |-> outcome,
                                                   finished |-> FALSE])
                   /\ UNCHANGED <<libfs, copied>>
    /\ UNCHANGED <<source, media, sidecars, pc, dry_run, candidates, idx, answers,
                   unique_by_hash, duplicates_skipped, to_import, file_copies,
                   copy_failures, tx, result, stats, start, repeat, faults,
                   failure_list>>
    /\ UNCHANGED otherVars
    /\ UNCHANGED <<oldToolVars, createVars, extractVars, dateFilterVars>>

\* a worker whose copy failed takes the lock and adds its failure
WorkerRecord ==
    /\ pc = "copy"
    /\ \E i \in DOMAIN workers :
         /\ ~workers[i].finished
         /\ failure_list' = AddFailure(failure_list, file_copies[i], workers[i].outcome)
         /\ copy_failures' = Append(copy_failures, file_copies[i])
         /\ workers' = [workers EXCEPT ![i].finished = TRUE]
         /\ copied' = copied \cup {i}
    /\ UNCHANGED <<source, media, sidecars, libfs, pc, dry_run, candidates, idx,
                   answers, unique_by_hash, duplicates_skipped, to_import,
                   file_copies, tx, result, stats, start, repeat, faults>>
    /\ UNCHANGED otherVars
    /\ UNCHANGED <<oldToolVars, createVars, extractVars, dateFilterVars>>

CopyNext ==
    \/ ImportStart
    \/ DedupStep
    \/ DryRunReturn
    \/ PlanStep
    \/ WorkerCopy
    \/ WorkerRecord
    \/ CopyFailedReturn
    \/ TxStep
    \/ CommitStep

CopySpec == CopyInit /\ [][CopyNext]_vars

\* ------------------------------------------------ metadata extraction
\* the days the date sources of a file can name
ExifDays == 1..(MaxDay + 1)

\* a date field of exiftool's output: absent (serde default ""), not in
\* EXIF_DATE_FORMAT, or a date
ExifDateFields ==
    {[text |-> t, day |-> 1] : t \in {"empty", "malformed"}}
        \cup {[text |-> "date", day |-> d] : d \in ExifDays}

\* an offset field: absent, empty, not in EXIF_OFFSET_FORMAT, or an offset
ExifOffsetFields ==
    {[text |-> t, offset |-> 0] : t \in {"absent", "empty", "malformed"}}
        \cup {[text |-> "offset", offset |-> o] : o \in UtcOffsets}

\* what a file offers: whether ExifTool::new and read_metadata work, the
\* four fields, the file's creation time in the filesystem, and the clock
MetaSources ==
    [tool : {"ok", "unavailable", "read_failed"},
     create_date : ExifDateFields, offset_time : ExifOffsetFields,
     date_time_original : ExifDateFields,
     offset_time_original : ExifOffsetFields,
     fs_created : {None} \cup {Some(d) : d \in ExifDays},
     now : ExifDays]

\* parse_exif_date: Err for an empty or malformed date; the offset field if
\* it parses, else the local offset
parse_exif_date(date_str, offset_str) ==
    IF date_str.text # "date" THEN None
    ELSE Some([date |-> date_str.day,
               zone |-> IF offset_str.text = "offset" THEN "field" ELSE "local",
               offset |-> offset_str.offset])

\* OffsetDateTime::now_local()
NowLocal(m) ==
    [date |-> m.now, zone |-> "local", offset |-> 0, from |-> "now"]

\* extract_metadata's fallback chain over the output of the tool
FallbackChain(m) ==
    LET a == parse_exif_date(m.create_date, m.offset_time)
        b == parse_exif_date(m.date_time_original, m.offset_time_original)
    IN  IF a.some THEN a.value @@ [from |-> "create_date"]
        ELSE IF b.some THEN b.value @@ [from |-> "date_time_original"]
        ELSE IF m.fs_created.some
             THEN [date |-> m.fs_created.value, zone |-> "utc", offset |-> 0,
                   from |-> "filesystem"]
        ELSE NowLocal(m)

\* the created_at process_source_file gives the candidate
ExtractedCreatedAt(m) ==
    IF m.tool = "ok" THEN FallbackChain(m) ELSE NowLocal(m)

ExtractInit ==
    /\ source \in {<<f>> : f \in SourceFile}
    /\ InitLibrary
    /\ NoSearch /\ NoDates /\ NoBackups /\ NoRemote /\ NoCreate /\ NoWorkers
    /\ NoDateFilter
    /\ meta \in MetaSources
    /\ extracted = None

\* process_source_file: the extraction step for one file
ExtractMetadata ==
    /\ extracted = None
    /\ extracted' = Some(ExtractedCreatedAt(meta))
    /\ UNCHANGED meta
    /\ UNCHANGED <<libVars, oldToolVars, createVars, copyVars, dateFilterVars>>

ExtractNext == ExtractMetadata

ExtractSpec == ExtractInit /\ [][ExtractNext]_vars

\* ------------------------------------------------ search by date
\* the calendar days of the capture times and of the --date argument
CalendarDays == [year : {2023, 2024}, month : {1, 2}, day : {1, 2}]

\* the capture times of the rows: a day and an hour, at offset +00:00
CreatedTimes == [date : CalendarDays, hour : {0, 23}]

\* created_at as import writes it with DB_DATE_FORMAT
FormatCreatedAt(t) ==
    Padded(t.date.year, 4) \o <<":">> \o Padded(t.date.month, 2) \o <<":">>
      \o Padded(t.date.day, 2) \o <<" ">> \o Padded(t.hour, 2) \o <<":">>
      \o Padded(0, 2) \o <<":">> \o Padded(0, 2) \o <<".">> \o Subsecond(0)
      \o <<"+">> \o Padded(0, 2) \o <<":">> \o Padded(0, 2)

\* a row of table media: its capture time and its column created_at
CreatedRow(t) == [taken |-> t, created_at |-> FormatCreatedAt(t)]

\* a date as the operator types it: YYYY-MM-DD
DateText(d) ==
    Padded(d.year, 4) \o <<"-">> \o Padded(d.month, 2) \o <<"-">>
      \o Padded(d.day, 2)

\* the --date arguments: one day, or two days around ".."
DateArgs ==
    {DateText(d) : d \in CalendarDays}
        \cup {DateText(d) \o <<".", ".">> \o DateText(e) : d, e \in CalendarDays}

\* SearchQuery::parse_date_filter
parse_date_filter(s) ==
    LET parts == SplitDotDot(s)
    IN  IF DotDots(s) # {} /\ Len(parts) = 2
        THEN [date_start |-> Some(parts[1]), date_end |-> Some(parts[2])]
        ELSE [date_start |-> Some(s), date_end |-> Some(s)]

\* the text format!("{}:00:00:00", start) and format!("{}:23:59:59", end) give
BoundText(date, hh, mm, ss) ==
    date \o <<":">> \o Padded(hh, 2) \o <<":">> \o Padded(mm, 2)
         \o <<":">> \o Padded(ss, 2)

\* a <= b on TEXT columns
TextLessEq(a, b) == a = b \/ TextLess(a, b)

\* the WHERE clause of search for the date filter
DateMatches(q, row) ==
    /\ q.date_start.some =>
           TextLessEq(BoundText(q.date_start.value, 0, 0, 0), row.created_at)
    /\ q.date_end.some =>
           TextLessEq(row.created_at, BoundText(q.date_end.value, 23, 59, 59))

DateFilterInit ==
    /\ source = <<>>
    /\ InitLibrary
    /\ NoSearch /\ NoDates /\ NoBackups /\ NoRemote
    /\ NoCreate /\ NoWorkers /\ NoExtract
    /\ date_arg \in DateArgs
    /\ \E ts \in SUBSET CreatedTimes :
         /\ Cardinality(ts) <= MaxRows
         /\ created_rows = {CreatedRow(t) : t \in ts}
    /\ date_query = None
    /\ date_found = None

\* main: query.date_start and date_end from the --date argument
ParseDateFilter ==
    /\ ~date_query.some
    /\ date_query' = Some(parse_date_filter(date_arg))
    /\ UNCHANGED <<date_arg, created_rows, date_found>>
    /\ UNCHANGED <<libVars, oldToolVars, createVars, copyVars, extractVars>>

\* search(library_dir, query): the rows the SELECT returns
SearchByDate ==
    /\ date_query.some
    /\ ~date_found.some
    /\ date_found' = Some({r \in created_rows : DateMatches(date_query.value, r)})
    /\ UNCHANGED <<date_arg, created_rows, date_query>>
    /\ UNCHANGED <<libVars, oldToolVars, createVars, copyVars, extractVars>>

DateFilterNext ==
    \/ ParseDateFilter
    \/ SearchByDate

DateFilterSpec == DateFilterInit /\ [][DateFilterNext]_vars

\* ------------------------------------------------------------------ claims
Running == pc \in {"dedup", "copy", "commit"}

IndexAsAtStart == media = start.media /\ sidecars = start.sidecars

ReturnedOk == pc = "done" /\ result = "Ok"

DedupFinished == pc \in {"copy", "commit", "done"} \/ (pc = "dedup" /\ idx > Len(candidates))

\* C1: once a copy (or the creation of its parent directory) has failed, the
\* run opens no transaction, leaves every media and sidecar row as it was
\* before the call, and returns CopyFailed, whatever the other copies did and
\* in whatever order the workers ran.
C1_CopyFailureLeavesIndex ==
    copy_failures # <<>> =>
        /\ IndexAsAtStart
        /\ ~tx.open
        /\ pc \in {"copy", "done"}
        /\ (pc = "done" => result = "CopyFailed")

C1_Witness ==
    /\ pc = "done"
    /\ result = "CopyFailed"
    /\ Len(file_copies) >= 3
    /\ libfs # start.libfs

\* C2: while a run has not committed, the index holds exactly the rows it held
\* before the run, so an interruption at any such step leaves it untouched;
\* and rows are written (inside the transaction) only when every planned copy
\* has finished without failure.
C2_NoRowBeforeCopies ==
    /\ Running => IndexAsAtStart
    /\ tx.open =>
         /\ copied = 1..Len(file_copies)
         /\ copy_failures = <<>>
         /\ \A i \in 1..Len(file_copies) : libfs[file_copies[i].destination] # NoFile

C2_Witness ==
    /\ pc = "commit"
    /\ tx.open
    /\ Cardinality(tx.media \ media) >= 2
    /\ tx.sidecars # sidecars
    /\ Len(file_copies) >= 3

\* C3: an import of a source whose previous index change was a successful
\* import of the same unchanged source returns Ok, leaves the media and
\* sidecar rows as they were, inserts nothing and counts every candidate as a
\* skipped duplicate.
C3_SecondImportAddsNothing ==
    (pc = "done" /\ start.repeat) =>
        /\ result = "Ok"
        /\ IndexAsAtStart
        /\ to_import = <<>>
        /\ stats.images_imported = 0
        /\ stats.videos_imported = 0
        /\ stats.sidecars_imported = 0
        /\ stats.duplicates_skipped = Len(candidates)

C3_Witness ==
    /\ pc = "done"
    /\ start.repeat
    /\ ~dry_run
    /\ Len(candidates) = MaxCand
    /\ \E m \in media : IsAlt(m.hash)

\* C4: in the index, and in the rows an open transaction sees, no two media
\* rows have the same hash column; two rows with the same digest are a row
\* with the plain digest and the row with that digest and the "-alt" suffix.
HashesDistinct(rows) ==
    \A m1, m2 \in rows :
        m1 # m2 =>
            /\ m1.hash # m2.hash
            /\ (Digest(m1.hash) = Digest(m2.hash) =>
                   \/ m1.hash = AltHash(m2.hash)
                   \/ m2.hash = AltHash(m1.hash))

C4_HashUnique == HashesDistinct(media) /\ (tx.open => HashesDistinct(tx.media))

C4_Witness ==
    /\ pc = "idle"
    /\ faults > 0
    /\ \E m1, m2 \in media : m1 # m2 /\ m2.hash = AltHash(m1.hash)

\* C5 (as the specification states it): after a successful import, every
\* sidecar of a candidate whose hash was already in the index is a sidecar
\* row of the media row with that hash.
C5_ExistingGetsNewSidecars ==
    (ReturnedOk /\ ~dry_run) =>
        \A i \in 1..Len(candidates) :
            \A m \in start.media :
                m.hash = candidates[i].hash =>
                    \A k \in 1..Len(candidates[i].sidecars) :
                        \E sc \in sidecars :
                            /\ sc.media_id = m.id
                            /\ sc.filename = candidates[i].sidecars[k].filename

\* C6 (as the specification states it): a copy step of import never changes
\* the content of a file that already exists below the library root.
C6_CopyNeverReplaces ==
    [][pc = "copy" =>
         \A p \in LibPaths :
             libfs[p] # NoFile => libfs'[p] = libfs[p]]_vars

\* C7 (as the specification states it): after a successful import, every
\* candidate for which the operator answered keep both is kept for import
\* under the disambiguated identity, with its own sidecars.
C7_KeepBothKeepsEach ==
    (ReturnedOk /\ ~dry_run) =>
        \A i \in 1..Len(candidates) :
            answers[i] = "B" =>
                \E k \in 1..Len(to_import) :
                    /\ to_import[k].source_path = candidates[i].source_path
                    /\ to_import[k].hash = AltHash(candidates[i].hash)
                    /\ to_import[k].sidecars = candidates[i].sidecars

\* the pairs (i with sidecars, j without) that alone make up a hash group of
\* the batch whose hash is not in the index
LoneSidecarPairs ==
    {p \in (1..Len(candidates)) \X (1..Len(candidates)) :
        /\ p[1] # p[2]
        /\ candidates[p[1]].hash = candidates[p[2]].hash
        /\ ~hash_exists(start.media, candidates[p[1]].hash)
        /\ candidates[p[1]].sidecars # <<>>
        /\ candidates[p[2]].sidecars = <<>>
        /\ \A k \in 1..Len(candidates) :
               candidates[k].hash = candidates[p[1]].hash => k \in {p[1], p[2]}}

\* the pairs without any sidecar that alone make up such a hash group
BarePairs ==
    {p \in (1..Len(candidates)) \X (1..Len(candidates)) :
        /\ p[1] < p[2]
        /\ candidates[p[1]].hash = candidates[p[2]].hash
        /\ ~hash_exists(start.media, candidates[p[1]].hash)
        /\ candidates[p[1]].sidecars = <<>>
        /\ candidates[p[2]].sidecars = <<>>
        /\ \A k \in 1..Len(candidates) :
               candidates[k].hash = candidates[p[1]].hash => k \in {p[1], p[2]}}

First(i, j) == IF i < j THEN i ELSE j

\* C8 (as the specification states it): the entry kept for such a pair is the
\* member that has the sidecars.
C8_KeepsMemberWithSidecars ==
    DedupFinished =>
        \A p \in LoneSidecarPairs :
            unique_by_hash[candidates[p[1]].hash] = candidates[p[1]]

\* C8 (amended): the one entry kept for such a pair has the filename and the
\* source path of the member processed first and the sidecars of the member
\* that has them; the other member is not kept; of two members without
\* sidecars the one processed first is kept.
C8_KeepsFirstWithSidecars ==
    DedupFinished =>
        /\ \A p \in LoneSidecarPairs :
               /\ unique_by_hash[candidates[p[1]].hash] =
                      [candidates[First(p[1], p[2])] EXCEPT
                          !.sidecars = candidates[p[1]].sidecars]
               /\ AltHash(candidates[p[1]].hash) \notin DOMAIN unique_by_hash
               /\ duplicates_skipped >= 1
        /\ \A p \in BarePairs :
               /\ unique_by_hash[candidates[p[1]].hash] = candidates[p[1]]
               /\ AltHash(candidates[p[1]].hash) \notin DOMAIN unique_by_hash
               /\ duplicates_skipped >= 1

C8_Witness ==
    /\ pc = "done"
    /\ result = "Ok"
    /\ \E p \in LoneSidecarPairs :
           /\ p[2] < p[1]
           /\ candidates[p[1]].filename # candidates[p[2]].filename

C10_DryRunChangesNothing ==
    dry_run =>
        /\ pc \in {"dedup", "done"}
        /\ IndexAsAtStart
        /\ libfs = start.libfs
        /\ ~tx.open
        /\ pc = "done" =>
             /\ result = "Ok"
             /\ stats = ImportStats(0, 0, 0, duplicates_skipped)
             /\ Len(to_import) = Cardinality(DOMAIN unique_by_hash)

C10_Witness ==
    /\ pc = "done"
    /\ dry_run
    /\ stats.duplicates_skipped > 0
    /\ Len(to_import) >= 2

\* ------------------------------------------------- claims about the scan
ScanLoops == {"scan_missing_loop", "scan_orphaned_loop", "scan_modified_loop"}

\* every sidecar row belongs to a media row
NoDangling(mrows, srows) == \A sc \in srows : \E m \in mrows : m.id = sc.media_id

\* C11: in the index, and in the rows an open transaction sees, every sidecar
\* row references a media row that exists: a deleted media row takes its
\* sidecar rows with it.
C11_NoDanglingSidecar ==
    /\ NoDangling(media, sidecars)
    /\ (tx.open => NoDangling(tx.media, tx.sidecars))

C11_Witness ==
    /\ scan_result.scanned
    /\ pc = "done"
    /\ \E m \in start.media :
           /\ m \notin media
           /\ \E sc \in start.sidecars : sc.media_id = m.id

\* the media rows of the library the scan started on whose file is absent
RowsWithoutFile == {m \in start.media : start.libfs[MediaPath(m)] = NoFile}

\* the classified media files the scan started on that no row names, in a
\* set of top-level folders
UnknownMediaFiles(folders) ==
    {p \in LibPaths :
        /\ p.folder \in folders
        /\ start.libfs[p] # NoFile
        /\ p.name \in MediaNames
        /\ \A m \in start.media : MediaPath(m) # p
        /\ \A sc \in start.sidecars :
               \A m \in start.media :
                   m.id = sc.media_id => DestPath(m.relpath, sc.filename) # p}

\* the paths of media rows that have no file
PathsGone == {MediaPath(m) : m \in RowsWithoutFile}

\* C12 (as the specification states it): the scan reports as missing the
\* rows without a file, as untracked every classified media file below the
\* library root that no row names, and one missing entry when one tracked
\* file is gone.
C12_ReportsEveryUntracked ==
    scan_result.scanned =>
        /\ Range(scan_result.missing_files) = RowsWithoutFile
        /\ scan_result.new_files = UnknownMediaFiles({"images", "videos", "other"})
        /\ (Cardinality(PathsGone) = 1 => Len(scan_result.missing_files) = 1)

\* the index a handler leaves when it applies every accepted change
ExpectedAfter(p) ==
    IF p = "scan_missing_loop"
    THEN handle_missing_files(media, sidecars, Range(scan_result.missing_files),
                              choice, accepted)
    ELSE IF p = "scan_orphaned_loop"
    THEN [media |-> media,
          sidecars |-> handle_orphaned_sidecars(
                           sidecars, Range(scan_result.orphaned_sidecars), choice)]
    ELSE [media |-> media,
          sidecars |-> handle_modified_sidecars(
                           media, sidecars,
                           {sc \in sidecars :
                               \E f \in Range(scan_result.modified_sidecars) :
                                   f.media_id = sc.media_id /\ f.filename = sc.filename},
                           libfs, choice)]

HandlerStep ==
    pc \in ScanLoops =>
        \/ pc' = pc /\ media' = media /\ sidecars' = sidecars
        \/ /\ pc' = "done"
           /\ result' \in {"Io", "Database"}
           /\ media' = media
           /\ sidecars' = sidecars
        \/ /\ pc' = NextHandler(pc)
           /\ media' = ExpectedAfter(pc).media
           /\ sidecars' = ExpectedAfter(pc).sidecars

\* C13: while a handler of the scan works in its transaction the index does
\* not change; when it returns, the index is either as it was (an error: a
\* failed read of an answer, a failed statement or a failed commit) or holds
\* every accepted row change of the category.
C13_HandlerAppliesAllOrNone == [][HandlerStep]_vars

C13_Witness ==
    /\ scan_result.scanned
    /\ pc = "done"
    /\ result \in {"Io", "Database"}
    /\ choice = "S"
    /\ accepted # {}
    /\ Len(scan_result.missing_files) >= 2
    /\ media = start.media
    /\ sidecars = start.sidecars

RemovalStep ==
    media \ media' # {} =>
        /\ pc = "scan_missing_loop"
        /\ choice \in {"R", "S"}
        /\ media \ media' \subseteq accepted
        /\ accepted \subseteq Range(scan_result.missing_files)
        /\ \A m \in media \ media' : libfs[MediaPath(m)] = NoFile
        /\ media' \subseteq media

\* C14: a step removes media rows only as the commit of the missing-files
\* handler after the answer R or S, and only rows the operator approved
\* (all under R, those answered y under S) that the scan listed as missing
\* and whose file is absent.
C14_DeleteOnlyApprovedMissing == [][RemovalStep]_vars

C14_Witness ==
    /\ pc = "scan_orphaned"
    /\ choice = "S"
    /\ accepted # {}
    /\ accepted # Range(scan_result.missing_files)
    /\ media = start.media \ accepted

\* C15 (as the specification states it): when no file was added by hand, a
\* scan that has returned Ok leaves no media file below images/ or videos/
\* outside the index.
C15_ScanHealsOrphans ==
    (pc = "done" /\ scan_result.scanned /\ result = "Ok" /\ edits = 0) =>
        find_new_files(media, sidecars, libfs) = {}

\* the run is an import whose source is the library root
ImportsLibrary == candidates # <<>> /\ IsLibPath(candidates[1].source_path)

\* C16 (as the specification states it): an import of the library into
\* itself that has returned Ok has kept the content of every file of the
\* library and leaves no untracked media file.
C16_SelfImportKeepsFiles ==
    (pc = "done" /\ result = "Ok" /\ ImportsLibrary) =>
        /\ \A p \in LibPaths :
               start.libfs[p] # NoFile => libfs[p] = start.libfs[p]
        /\ find_new_files(media, sidecars, libfs) = {}

\* ----------------------------------------------- claims about the search
\* the bytes of a unit as the --size argument names it
UnitBytes(u) ==
    IF to_uppercase(u) = <<"K", "B">> THEN 1024
    ELSE IF to_uppercase(u) = <<"M", "B">> THEN 1024 * 1024
    ELSE 1

\* C17: a search with the size filter ">N<unit>" returns only rows whose
\* file_size is strictly greater than N*unit bytes, and a search with the
\* range "A..B" returns exactly the rows whose file_size lies in [A, B]
C17_SizeFilterBounds ==
    found # NotRun =>
        \A n \in SizeNumbers, u \in SizeUnits :
            /\ size_str = <<">">> \o DecimalText(n) \o u =>
                   \A f \in found : f > n * UnitBytes(u)
            /\ \A m \in SizeNumbers, w \in SizeUnits :
                   size_str = DecimalText(n) \o u \o <<".", ".">>
                                  \o DecimalText(m) \o w =>
                       found = {f \in file_sizes :
                                   /\ n * UnitBytes(u) <= f
                                   /\ f <= m * UnitBytes(w)}

\* ------------------------------------------- claims about the timestamps
\* the instant a is before the instant b
Before(a, b) == a.hour < b.hour \/ (a.hour = b.hour /\ a.sub < b.sub)

\* C18: for any two stored timestamps the order of their texts is the order
\* of their instants: the comparison calls the first later exactly when its
\* instant is the later one, and calls them the same exactly when the
\* instants are equal
C18_TextOrderIsTimeOrder ==
    later # "unset" =>
        /\ later = "first" <=> Before(stamps[2].instant, stamps[1].instant)
        /\ later = "second" <=> Before(stamps[1].instant, stamps[2].instant)

\* ----------------------------------------------- claims about the backup
\* the history record of the running backup() call
CallRecords == {r \in backup_history : r.id = backup_call.backup_id}

\* C19: when a backup() call has returned, with Ok or with an error, a
\* dry run has left the history as it was, and the record a real run has
\* created is completed or failed, not running; the records of earlier
\* calls are as they were
C19_ReturnedBackupIsSettled ==
    backup_pc = "returned" =>
        /\ backup_call.dry_run => backup_history = backup_call.before
        /\ ~backup_call.dry_run =>
               /\ \A r \in CallRecords : r.status \in {"completed", "failed"}
               /\ backup_history \ CallRecords = backup_call.before

\* ------------------------------------------------- claims about the push
\* the files of the remote library whose media the local index does not
\* hold: the media files and their sidecars
RemoteOnlyPaths ==
    LET only == {r \in remote_media : ~hash_exists(media, r.hash)}
    IN  {MediaPath(r) : r \in only}
          \cup {SidecarPath(remote_media, sc) :
                   sc \in {x \in Joined(remote_media, remote_sidecars) :
                             OwnerOf(remote_media, x) \in only}}

\* C20: during and after a push every file the remote library had is still
\* there, and every file of a media only the remote library has holds the
\* content it had before the push
C20_PushKeepsRemoteOnly ==
    push_pc # "idle" =>
        \A p \in LibPaths :
            /\ push_call.before[p] # NoFile => remotefs[p] # NoFile
            /\ p \in RemoteOnlyPaths => remotefs[p] = push_call.before[p]

\* C21: a sidecar conflict the operator did not resolve as local-wins is not
\* overwritten on the remote: its remote file holds what it held before the
\* push, whatever was answered at the other conflicts
C21_ConflictFollowsItsAnswer ==
    push_pc # "idle" =>
        \A i \in 1..Len(push_call.answered) :
            push_call.answered[i] # "UseLocal" =>
                remotefs[push_call.conflicts[i].local_path]
                    = push_call.before[push_call.conflicts[i].local_path]

\* ------------------------------------- claims about create and open
\* C22: create on a directory that holds a library.db returns LibraryExists
\* and changes nothing; on a missing directory or a directory without
\* library.db it returns Ok, unless a filesystem or database call failed, and
\* then the directory exists with images/, videos/ and an empty index; open
\* returns LibraryNotFound for a missing directory and InvalidLibrary for one
\* without library.db, changes nothing, and succeeds on what create made
C22_CreateAndOpen ==
    LET b == lib_call.before
    IN  /\ lib_call.op = "create" =>
               /\ HasDb(b) => (lib_call.result = "LibraryExists" /\ root_dir = b)
               /\ lib_call.result = "LibraryExists" => HasDb(b)
               /\ (~HasDb(b) /\ b.kind # "file") =>
                      lib_call.result \in {"Ok", "Io", "Database"}
               /\ lib_call.result = "Ok" =>
                      root_dir = [kind |-> "dir", images |-> TRUE, videos |-> TRUE,
                                  db |-> [present |-> TRUE, rows |-> {}]]
        /\ lib_call.op = "open" =>
               /\ root_dir = b
               /\ b.kind = "missing" => lib_call.result = "LibraryNotFound"
               /\ (b.kind # "missing" /\ ~HasDb(b)) =>
                      lib_call.result = "InvalidLibrary"
               /\ HasDb(b) => lib_call.result \in {"Ok", "Database"}

\* create has made a library in a missing directory
C22_Witness ==
    /\ lib_call.op = "create"
    /\ lib_call.result = "Ok"
    /\ lib_call.before.kind = "missing"
    /\ HasDb(root_dir)

\* --------------------------------------- claims about the per-file phase
\* the directories of the source whose file is an image or a video and
\* could be read
Importable == {i \in DOMAIN source : /\ detect_file_type(source[i]) # "none"
                                      /\ source[i].fault = "none"}

\* C23: once the files are scanned, the candidates are exactly the files
\* that are classified as image or video and could be read, one candidate
\* each with the hash of its file; a file of unknown type or an unreadable
\* file has no candidate, the run goes on, and every media row has the hash
\* of such a file
C23_OnlyReadableMediaAreCandidates ==
    /\ pc # "idle" =>
           /\ {c.source_path.dir : c \in Range(candidates)} = Importable
           /\ Len(candidates) = Cardinality(Importable)
           /\ \A c \in Range(candidates) :
                  c.hash = hash_file(source[c.source_path.dir].content)
    /\ \A m \in media :
           \E i \in Importable : Digest(m.hash) = hash_file(source[i].content)

\* an import has committed a row beside an unknown and an unreadable file
C23_Witness ==
    /\ pc = "done"
    /\ result = "Ok"
    /\ media # {}
    /\ \E i \in DOMAIN source : detect_file_type(source[i]) = "none"
                                      \/ source[i].fault # "none"

\* ------------------------------------------- claims about the copy workers
\* the planned copies whose worker met an error
FailedCopies == {i \in DOMAIN workers : workers[i].outcome # "ok"}

\* the entries of the collection that are about planned copy i
EntriesOf(i) ==
    {k \in DOMAIN failure_list :
        /\ failure_list[k].source = file_copies[i].source
        /\ failure_list[k].destination = file_copies[i].destination}

\* C24: when import returns CopyFailed, the collection it carries has
\* exactly one entry for every copy that failed, with that copy's source,
\* destination and cause, and no other entry, in whatever order the copy
\* workers ran
C24_OneEntryPerFailedCopy ==
    (pc = "done" /\ result = "CopyFailed") =>
        /\ Len(failure_list) = Cardinality(FailedCopies)
        /\ \A i \in 1..Len(file_copies) :
               IF i \in FailedCopies
               THEN \E k \in DOMAIN failure_list :
                        /\ EntriesOf(i) = {k}
                        /\ failure_list[k].error = workers[i].outcome
               ELSE EntriesOf(i) = {}

\* an import has returned CopyFailed after one copy went through and two
\* failed, recorded in the other order than they were planned
C24_Witness ==
    /\ pc = "done"
    /\ result = "CopyFailed"
    /\ Cardinality(FailedCopies) >= 2
    /\ \E i \in DOMAIN workers : workers[i].outcome = "ok"
    /\ \E i, j \in FailedCopies, k, l \in DOMAIN failure_list :
           /\ i < j
           /\ l < k
           /\ EntriesOf(i) = {k}
           /\ EntriesOf(j) = {l}

\* --------------------------------------- claims about metadata extraction
\* the first source of the date that succeeds, in the order create date,
\* original date, filesystem creation time, current local time
FirstSource(m) ==
    IF m.tool = "ok" /\ m.create_date.text = "date" THEN "create_date"
    ELSE IF m.tool = "ok" /\ m.date_time_original.text = "date"
         THEN "date_time_original"
    ELSE IF m.fs_created.some THEN "filesystem"
    ELSE "now"

\* C25: the extraction step always gives the file a capture time, and it is
\* the one of the first source that succeeds in the order create date,
\* original date, filesystem creation time, current local time, also when
\* the extraction tool is unavailable or fails
C25_FirstSourceThatSucceeds ==
    extracted.some =>
        /\ extracted.value.from = FirstSource(meta)
        /\ extracted.value.from = "filesystem" =>
               extracted.value.date = meta.fs_created.value
        /\ extracted.value.from = "now" => extracted.value.date = meta.now

\* ------------------------------------------- claims about search by date
\* day d is not after day e
DayLessEq(d, e) ==
    \/ d.year < e.year
    \/ d.year = e.year /\ d.month < e.month
    \/ d.year = e.year /\ d.month = e.month /\ d.day <= e.day

\* the rows whose capture date lies between the days the argument names
RowsOfDays(s, rows) ==
    {r \in rows :
        \E d, e \in CalendarDays :
            /\ s \in {DateText(d) \o <<".", ".">> \o DateText(e)}
                      \cup {t \in {DateText(d)} : d = e}
            /\ DayLessEq(d, r.taken.date)
            /\ DayLessEq(r.taken.date, e)}

\* C26: a search with --date YYYY-MM-DD returns exactly the rows whose
\* capture date is that day, and with YYYY-MM-DD..YYYY-MM-DD exactly the
\* rows whose capture date lies in the inclusive range
C26_DateFilterMatchesDays ==
    date_found.some => date_found.value = RowsOfDays(date_arg, created_rows)

\* ------------------------------------- claims about the import as a whole
\* C27: when a non-dry-run import has returned Ok, the file of every media
\* row it inserted has the content the row's hash (without "-alt") was made
\* from, and the file of every sidecar row it inserted has the content of
\* the row's hash
C27_InsertedRowsMatchFiles ==
    (ReturnedOk /\ ~dry_run) =>
        /\ \A m \in media \ start.media :
               /\ libfs[MediaPath(m)] # NoFile
               /\ hash_file(libfs[MediaPath(m)]) = Digest(m.hash)
        /\ \A sc \in sidecars \ start.sidecars :
               /\ libfs[SidecarPath(media, sc)] # NoFile
               /\ hash_file(libfs[SidecarPath(media, sc)]) = sc.hash

\* C28: when the dedup loop has finished, the number of candidates is the
\* number of entries kept for import plus duplicates_skipped, whatever the
\* operator answered at the prompts
C28_EveryCandidateCounted ==
    DedupFinished =>
        Len(candidates) = Cardinality(DOMAIN unique_by_hash) + duplicates_skipped

\* C29: when every copy of an import has succeeded and the rows are about
\* to be inserted, no hash of to_import is in the index, and the import does
\* not fail on the uniqueness of media.hash
C29_NoHashInsertedTwice ==
    /\ (pc = "copy" /\ AllCopiesDone(copied, file_copies)
                    /\ ~CopyPhaseFailed(copy_failures)) =>
           \A k \in 1..Len(to_import) : ~hash_exists(media, to_import[k].hash)
    /\ result # "Database"

\* ------------------------------------------ claims about repeated pushes
\* C30: a push that follows a non-dry-run push which returned Ok, with no
\* change to either library in between, finds no new media, no sidecar
\* updates and no conflicts, reports that everything is in sync and copies
\* nothing to the remote
C30_SecondPushInSync ==
    [][(/\ push_pc = "idle"
        /\ push_call.result = "Ok"
        /\ ~push_call.dry_run
        /\ push_pc' # "idle"
        /\ push_call'.result # "Library") =>
           /\ push_pc' = "returned"
           /\ push_call'.in_sync
           /\ push_todo' = <<>>]_vars
====
